---- MODULE Spec2Model ----
(***************************************************************************)
(* A model of the job scanner: the persistent job store                    *)
(* (src/src/database/job_store.py), the shared scrape pipeline             *)
(* (src/src/scrapers/base_scraper.py, src/src/utils/helpers.py) and the    *)
(* orchestrator (src/main.py).                                             *)
(***************************************************************************)
EXTENDS Integers, Sequences, FiniteSets, TLC

(***************************************************************************)
(* Bounds of the model.                                                    *)
(***************************************************************************)
MaxTime == 1        \* the clock (datetime.now()) runs over 0..MaxTime
MaxBatch == 2       \* longest list handed to add_jobs
TicksPerDay == 2    \* clock ticks in a day: the resolution of the dates
MaxAge == 1         \* max_age_days runs over 0..MaxAge
MaxTierJobs == 4    \* longest listing of jobs that differ in location only
MaxJobs == 2        \* longest listing of mixed raw records
MaxRuns == 2        \* runs of main() in a row

VARIABLES
    store,      \* the JobStore
    clock,      \* the wall clock (datetime.now())
    last,       \* the last call: operation, arguments, result, rows before
    twice,      \* set when the last two calls were add_job of one record
    marked,     \* ids handed to a mark_as_notified that returned, while stored
    scraper,    \* a BaseScraper: its job_titles and max_age_days
    site,       \* the career site: what fetch_jobs and parse_job meet
    result,     \* what scrape() gave its caller
    adapter,    \* one adapter at work: the pages it reads, what it collected
    run,        \* main(): where it is, its arguments and its local variables
    log         \* what happened in the runs of main() so far

storeVars == <<store, clock, last, twice, marked>>
scrapeVars == <<scraper, site, result, adapter>>
mainVars == <<run, log>>
vars == <<storeVars, scrapeVars, mainVars>>

(***************************************************************************)
(* Values.                                                                 *)
(***************************************************************************)
None == "None"      \* Python's None / SQL NULL

Ids == {"j1", "j2"}
StoreTitles == {"Data Engineer"}
Paths == {"a.docx"}
Times == 0..MaxTime

\* A job_data dictionary handed to add_job.  title stands for the content
\* columns (title, company, location, description, url, ...): all are copied
\* at insert and never written again; title and company are NOT NULL, so a
\* dictionary whose title is None makes the commit raise (IntegrityError).
JobDict(id, title, is_eu, is_uae) ==
    [id |-> id, title |-> title, is_eu |-> is_eu, is_uae |-> is_uae]

\* The dictionaries the calls are tried on: two of one id that differ in
\* their other fields, one of another id, and one that cannot be inserted.
JobData ==
    { JobDict("j1", "Data Engineer", TRUE, FALSE),
      JobDict("j1", "Data Engineer", FALSE, TRUE),
      JobDict("j2", "Data Engineer", TRUE, FALSE),
      JobDict("j2", None, FALSE, FALSE) }

\* class JobModel: one row of the jobs table.
JobModel == [id: Ids, title: StoreTitles, is_eu: BOOLEAN, is_uae: BOOLEAN,
             notified: BOOLEAN, notified_at: Times,
             resume_generated: BOOLEAN, resume_path: Paths \cup {None}]

\* The store right after JobStore.__init__ on a fresh database file: an
\* empty table and a clean session.
\*   rows    : the committed rows of the jobs table
\*   pending : objects handed to session.add and not yet committed
\*   failed  : the session's transaction failed in commit and was not
\*             rolled back; every later use of the session raises until
\*             session.rollback() is called
EmptyStore == [rows |-> {}, pending |-> {}, failed |-> FALSE]

StoredIds(rows) == {r.id : r \in rows}

\* session.query(JobModel).filter_by(id=...).first(): the rows of that id.
RowsOf(rows, id) == {r \in rows : r.id = id}

\* id = Column(String(50), primary_key=True): an INSERT of a row whose id
\* is already in the table is refused.
PrimaryKeyAllows(rows, row) == row.id \notin StoredIds(rows)

\* Where an operation's database work fails: not at all, in the query or
\* UPDATE statement, or in session.commit().
FailKinds == {"none", "query", "commit"}

\* The result of a store call: the store after it, the returned value and
\* whether the call raised.
Outcome(st, ret, raised) == [st |-> st, ret |-> ret, raised |-> raised]

\* session.rollback(): drops the pending objects and makes the session
\* usable again; committed rows are untouched.
Rollback(st) == [st EXCEPT !.pending = {}, !.failed = FALSE]

\* A slip: the except branch re-raises without session.rollback().
AddJobExcept_NoRollback(st) == Outcome(st, None, TRUE)

\* The except branch of add_job: rollback, then re-raise.
AddJobExcept(st) == Outcome(Rollback(st), None, TRUE)

\* The row add_job builds: the flags default to False, notified_at
\* defaults to datetime.now(), resume_path to NULL.
NewRow(job_data, now) ==
    [id |-> job_data.id, title |-> job_data.title,
     is_eu |-> job_data.is_eu, is_uae |-> job_data.is_uae,
     notified |-> FALSE, notified_at |-> now,
     resume_generated |-> FALSE, resume_path |-> None]

\* A slip: add_job reports an insert for a stored id.
AddJobExisting_ReturnsTrue(st, job_data, now) == Outcome(st, TRUE, FALSE)

\* A slip: add_job merges the record into the stored row of its id
\* (session.merge) before it returns False.
AddJobExisting_Merge(st, job_data, now) ==
    Outcome([st EXCEPT !.rows = (@ \ RowsOf(@, job_data.id))
                                   \cup {NewRow(job_data, now)}],
            FALSE, FALSE)

\* A slip: add_job of a stored id makes the row due for notification again.
AddJobExisting_Renotify(st, job_data, now) ==
    Outcome([st EXCEPT !.rows = {IF r.id = job_data.id
                                 THEN [r EXCEPT !.notified = FALSE]
                                 ELSE r : r \in @}],
            FALSE, FALSE)

\* What add_job does when the query finds a row of the id: return False.
AddJobExisting(st, job_data, now) == Outcome(st, FALSE, FALSE)

\* JobStore.add_job
AddJob(st, job_data, now, fail) ==
    IF st.failed \/ fail = "query"
    THEN AddJobExcept(st)
    ELSE IF RowsOf(st.rows, job_data.id) # {}
    THEN AddJobExisting(st, job_data, now)
    ELSE LET row == NewRow(job_data, now)
             added == [st EXCEPT !.pending = @ \cup {row}]
         IN  IF \/ fail = "commit"
                \/ job_data.title = None
                \/ ~PrimaryKeyAllows(st.rows, row)
             THEN AddJobExcept([added EXCEPT !.failed = TRUE])
             ELSE Outcome([added EXCEPT !.rows = @ \cup added.pending,
                                        !.pending = {}],
                          TRUE, FALSE)

\* JobStore.add_jobs, from position i of the list with `added` rows
\* inserted so far; failAt is the position whose commit fails (0: none).
RECURSIVE AddJobsFrom(_, _, _, _, _, _)
AddJobsFrom(st, jobs, i, added, now, failAt) ==
    IF i > Len(jobs)
    THEN Outcome(st, added, FALSE)
    ELSE LET r == AddJob(st, jobs[i], now, IF i = failAt THEN "commit" ELSE "none")
         IN  IF r.raised
             THEN r
             ELSE AddJobsFrom(r.st, jobs, i + 1,
                              IF r.ret THEN added + 1 ELSE added, now, failAt)

\* A slip: add_jobs returns the length of the list.
AddJobs_ReturnsLength(st, jobs, now, failAt) ==
    LET out == AddJobsFrom(st, jobs, 1, 0, now, failAt)
    IN  IF out.raised THEN out ELSE Outcome(out.st, Len(jobs), FALSE)

AddJobs(st, jobs, now, failAt) == AddJobsFrom(st, jobs, 1, 0, now, failAt)

\* A slip: filter_by(notified=True).
GetUnnotifiedJobs_Notified(rows) == {r \in rows : r.notified}

\* JobStore.get_unnotified_jobs (the order of the result is the database's).
GetUnnotifiedJobs(rows) == {r \in rows : ~r.notified}

\* A slip: the UPDATE without its filter on the ids.
UpdateNotified_AllRows(rows, job_ids, now) ==
    {[r EXCEPT !.notified = TRUE, !.notified_at = now] : r \in rows}

\* A slip: the UPDATE matches no row.
UpdateNotified_NoRows(rows, job_ids, now) == rows

\* The UPDATE of mark_as_notified.
UpdateNotified(rows, job_ids, now) ==
    {IF r.id \in job_ids
     THEN [r EXCEPT !.notified = TRUE, !.notified_at = now]
     ELSE r : r \in rows}

\* JobStore.mark_as_notified: no except branch, so a failed commit leaves
\* the session failed.
MarkAsNotified(st, job_ids, now, fail) ==
    IF st.failed \/ fail = "query"
    THEN Outcome(st, None, TRUE)
    ELSE IF fail = "commit"
    THEN Outcome([st EXCEPT !.failed = TRUE], None, TRUE)
    ELSE Outcome([st EXCEPT !.rows = UpdateNotified(@, job_ids, now)], None, FALSE)

\* A slip: the resume columns are written to every row.
MarkResumeGenerated_AllRows(st, job_id, resume_path, fail) ==
    IF st.failed \/ fail # "none"
    THEN Outcome(st, None, TRUE)
    ELSE Outcome([st EXCEPT !.rows =
                     {[r EXCEPT !.resume_generated = TRUE,
                                !.resume_path = resume_path] : r \in @}],
                 None, FALSE)

\* JobStore.mark_resume_generated
MarkResumeGenerated(st, job_id, resume_path, fail) ==
    IF st.failed \/ fail = "query"
    THEN Outcome(st, None, TRUE)
    ELSE IF RowsOf(st.rows, job_id) = {}
    THEN Outcome(st, None, FALSE)
    ELSE IF fail = "commit"
    THEN Outcome([st EXCEPT !.failed = TRUE], None, TRUE)
    ELSE LET job == CHOOSE r \in RowsOf(st.rows, job_id) : TRUE
         IN  Outcome([st EXCEPT !.rows = (@ \ {job}) \cup
                         {[job EXCEPT !.resume_generated = TRUE,
                                      !.resume_path = resume_path]}],
                     None, FALSE)

\* JobStore.get_stats (the counts the claims use).
GetStats(rows) ==
    [total_jobs |-> Cardinality(rows),
     notified |-> Cardinality({r \in rows : r.notified}),
     pending |-> Cardinality({r \in rows : ~r.notified}),
     resumes_generated |-> Cardinality({r \in rows : r.resume_generated})]

(***************************************************************************)
(* Strings (Python str), as TLC strings with Len, SubSeq and \o.           *)
(***************************************************************************)
UpperCase == "ABCDEFGHIJKLMNOPQRSTUVWXYZ"
LowerCase == "abcdefghijklmnopqrstuvwxyz"

\* str.lower() of one character.
LowerChar(c) ==
    IF \E i \in 1..Len(UpperCase) : SubSeq(UpperCase, i, i) = c
    THEN LET i == CHOOSE i \in 1..Len(UpperCase) : SubSeq(UpperCase, i, i) = c
         IN  SubSeq(LowerCase, i, i)
    ELSE c

\* str.lower()
RECURSIVE Lower(_)
Lower(s) ==
    IF s = "" THEN ""
    ELSE LowerChar(SubSeq(s, 1, 1)) \o Lower(SubSeq(s, 2, Len(s)))

\* Python's `sub in s` for strings.
In(sub, s) ==
    \E i \in 0..(Len(s) - Len(sub)) : SubSeq(s, i + 1, i + Len(sub)) = sub

\* str.replace(old, new), old not empty: every occurrence, left to right.
RECURSIVE Replace(_, _, _)
Replace(s, old, new) ==
    IF Len(s) < Len(old) THEN s
    ELSE IF SubSeq(s, 1, Len(old)) = old
    THEN new \o Replace(SubSeq(s, Len(old) + 1, Len(s)), old, new)
    ELSE SubSeq(s, 1, 1) \o Replace(SubSeq(s, 2, Len(s)), old, new)

\* " ".join(s.split()): runs of white space become one space, white space
\* at either end goes.  pendingSpace: a word was written and white space
\* has been read since.
RECURSIVE JoinSplit(_, _, _)
JoinSplit(s, wrote, pendingSpace) ==
    IF s = "" THEN ""
    ELSE LET c == SubSeq(s, 1, 1)
             rest == SubSeq(s, 2, Len(s))
         IN  IF c = " "
             THEN JoinSplit(rest, wrote, wrote)
             ELSE (IF pendingSpace THEN " " ELSE "") \o c \o JoinSplit(rest, TRUE, FALSE)

(***************************************************************************)
(* src/src/utils/helpers.py                                                *)
(***************************************************************************)
\* The mappings of normalize_location, in the order of the dictionary.
LocationMappings ==
    << <<"United Arab Emirates", "UAE">>,
       <<"U.A.E.", "UAE">>,
       <<"Deutschland", "Germany">>,
       <<"España", "Spain">>,
       <<"Polska", "Poland">>,
       <<"Nederland", "Netherlands">>,
       <<"Éire", "Ireland">> >>

RECURSIVE ApplyMappings(_, _)
ApplyMappings(location, k) ==
    IF k > Len(LocationMappings) THEN location
    ELSE ApplyMappings(Replace(location, LocationMappings[k][1], LocationMappings[k][2]),
                       k + 1)

\* normalize_location
normalize_location(location) ==
    IF location = None \/ location = "" THEN ""
    ELSE ApplyMappings(JoinSplit(location, FALSE, FALSE), 1)

eu_countries ==
    { "Austria", "Belgium", "Bulgaria", "Croatia", "Cyprus",
      "Czech Republic", "Czechia", "Denmark", "Estonia", "Finland",
      "France", "Germany", "Greece", "Hungary", "Ireland",
      "Italy", "Latvia", "Lithuania", "Luxembourg", "Malta",
      "Netherlands", "Poland", "Portugal", "Romania", "Slovakia",
      "Slovenia", "Spain", "Sweden" }

\* is_eu_location
is_eu_location(location) ==
    LET location_lower == Lower(location)
    IN  \E country \in eu_countries : In(Lower(country), location_lower)

uae_indicators == {"uae", "dubai", "abu dhabi", "sharjah", "united arab emirates"}

\* is_uae_location
is_uae_location(location) ==
    LET location_lower == Lower(location)
    IN  \E indicator \in uae_indicators : In(indicator, location_lower)

\* float('inf')
Inf == "inf"

\* An Optional[datetime]: the empty sequence is None, otherwise one datetime
\* at a number of ticks.  tzinfo tells whether the datetime carries a
\* timezone: datetime.now() - posted_date raises TypeError for such a one.
NoDate == <<>>
DateTime(at, tzinfo) == <<[at |-> at, tzinfo |-> tzinfo]>>
Aware == DateTime(0, TRUE)

\* days_since_posted, for a date that is None or a naive datetime;
\* timedelta.days rounds down.
days_since_posted(posted_date, now) ==
    IF posted_date = NoDate THEN Inf
    ELSE (now - posted_date[1].at) \div TicksPerDay

(***************************************************************************)
(* src/src/scrapers/base_scraper.py                                        *)
(***************************************************************************)
\* class Job.  obj is the identity of the object: the position of its raw
\* record in what fetch_jobs returned.
Job(obj, title, location, posted_date) ==
    [obj |-> obj, title |-> title, location |-> location,
     posted_date |-> posted_date, is_eu |-> FALSE, is_uae |-> FALSE]

\* The title test without the two lower() calls.
TitleMatch_CaseSensitive(job, job_titles) ==
    \E k \in 1..Len(job_titles) : In(job_titles[k], job.title)

\* filter_jobs: any(title.lower() in job.title.lower() for title in job_titles)
TitleMatch(job, job_titles) ==
    \E k \in 1..Len(job_titles) : In(Lower(job_titles[k]), Lower(job.title))

\* The age test with >= for >.
TooOld_AtBoundary(job, max_age_days, now) ==
    /\ job.posted_date # NoDate
    /\ days_since_posted(job.posted_date, now) >= max_age_days

\* filter_jobs: the age test; true when the job is dropped.
TooOld(job, max_age_days, now) ==
    /\ job.posted_date # NoDate
    /\ days_since_posted(job.posted_date, now) > max_age_days

\* filter_jobs raises on this job: job.title.lower() of a title that is
\* None (AttributeError; the generator runs only when job_titles is not
\* empty), or days_since_posted of a date it cannot subtract (TypeError).
FilterRaisesOn(job, job_titles) ==
    \/ job.title = None /\ Len(job_titles) > 0
    \/ /\ job.posted_date # NoDate
       /\ job.posted_date[1].tzinfo
       /\ job.title # None
       /\ TitleMatch(job, job_titles)

\* filter_jobs: the flags of a kept job.
MarkRegion(job) ==
    LET normalized_location == normalize_location(job.location)
    IN  [job EXCEPT !.is_eu = is_eu_location(normalized_location),
                    !.is_uae = is_uae_location(normalized_location)]

\* The loop of filter_jobs over jobs[i..], for jobs that do not make it
\* raise.
RECURSIVE FilterLoop(_, _, _, _, _)
FilterLoop(jobs, i, job_titles, max_age_days, now) ==
    IF i > Len(jobs) THEN <<>>
    ELSE LET job == jobs[i]
             rest == FilterLoop(jobs, i + 1, job_titles, max_age_days, now)
         IN  IF ~TitleMatch(job, job_titles) THEN rest
             ELSE IF TooOld(job, max_age_days, now) THEN rest
             ELSE <<MarkRegion(job)>> \o rest

\* The key without the two negations.
SortKey_NotNegated(j) == <<j.is_eu, j.is_uae>>

\* key=lambda j: (not j.is_eu, not j.is_uae)
SortKey(j) == <<~j.is_eu, ~j.is_uae>>

\* Python's order of tuples of bools: False < True, first element first.
KeyLess(a, b) ==
    \/ ~a[1] /\ b[1]
    \/ a[1] = b[1] /\ ~a[2] /\ b[2]

\* list.sort(key=...) is stable: x goes behind every element whose key is
\* not greater than its own.
RECURSIVE InsertSorted(_, _)
InsertSorted(sorted, x) ==
    IF sorted = <<>> THEN <<x>>
    ELSE IF KeyLess(SortKey(x), SortKey(Head(sorted)))
    THEN <<x>> \o sorted
    ELSE <<Head(sorted)>> \o InsertSorted(Tail(sorted), x)

RECURSIVE SortJobs(_, _)
SortJobs(filtered, n) ==
    IF n = 0 THEN <<>>
    ELSE InsertSorted(SortJobs(filtered, n - 1), filtered[n])

\* A slip: filter_jobs catches what a job raises and returns the jobs that
\* had passed before it.
filter_jobs_KeepsPassed(jobs, job_titles, max_age_days, now) ==
    LET raising == {i \in 1..Len(jobs) : FilterRaisesOn(jobs[i], job_titles)}
        upto == IF raising = {} THEN Len(jobs)
                ELSE (CHOOSE i \in raising : \A r \in raising : i <= r) - 1
        filtered == FilterLoop(SubSeq(jobs, 1, upto), 1, job_titles, max_age_days, now)
    IN  [raised |-> "none", jobs |-> SortJobs(filtered, Len(filtered))]

\* BaseScraper.filter_jobs: raised tells whether it raised.
filter_jobs(jobs, job_titles, max_age_days, now) ==
    IF \E i \in 1..Len(jobs) : FilterRaisesOn(jobs[i], job_titles)
    THEN [raised |-> "error", jobs |-> <<>>]
    ELSE LET filtered == FilterLoop(jobs, 1, job_titles, max_age_days, now)
         IN  [raised |-> "none", jobs |-> SortJobs(filtered, Len(filtered))]

\* What parse_job does with one raw record: "job" (a Job), "none" (returns
\* None), "error" (raises an Exception), "interrupt" (KeyboardInterrupt,
\* which is no Exception).
ParseKinds == {"job", "none", "error", "interrupt"}

RawRecord(parse, title, location, posted_date) ==
    [parse |-> parse, title |-> title, location |-> location,
     posted_date |-> posted_date]

\* The parse loop of scrape over raw_jobs[i..]: the jobs parsed, or what
\* was raised first.
RECURSIVE ParseLoop(_, _)
ParseLoop(raw_jobs, i) ==
    IF i > Len(raw_jobs) THEN [raised |-> "none", jobs |-> <<>>]
    ELSE LET raw == raw_jobs[i]
         IN  IF raw.parse \in {"error", "interrupt"}
             THEN [raised |-> raw.parse, jobs |-> <<>>]
             ELSE LET rest == ParseLoop(raw_jobs, i + 1)
                  IN  IF rest.raised # "none" THEN rest
                      ELSE IF raw.parse = "none" THEN rest
                      ELSE [rest EXCEPT !.jobs =
                               <<Job(i, raw.title, raw.location, raw.posted_date)>> \o @]

\* scrape without its try/except: what was raised reaches the caller.
ScrapeExcept_Propagates(raised) == [raised |-> raised, jobs |-> <<>>]

\* The except Exception branch of scrape: an Exception gives [], anything
\* else (KeyboardInterrupt) passes to the caller.
ScrapeExcept(raised) ==
    IF raised = "error"
    THEN [raised |-> "none", jobs |-> <<>>]
    ELSE [raised |-> raised, jobs |-> <<>>]

\* BaseScraper.scrape
scrape(self, web, now) ==
    IF web.fetch # "ok" THEN ScrapeExcept(web.fetch)
    ELSE LET parsed == ParseLoop(web.raw_jobs, 1)
         IN  IF parsed.raised # "none" THEN ScrapeExcept(parsed.raised)
             ELSE LET filtered == filter_jobs(parsed.jobs, self.job_titles,
                                              self.max_age_days, now)
                  IN  IF filtered.raised # "none" THEN ScrapeExcept(filtered.raised)
                      ELSE filtered

(***************************************************************************)
(* The store as a state machine: a client calls its operations one at a    *)
(* time (the program is single-threaded).                                  *)
(***************************************************************************)
\* The record of a call: rec is <<job_data>> for add_job and the ids of
\* the list of add_jobs, in its order, ids the ids of a mark call, ret the
\* value add_job returned, count the value add_jobs returned, at the time of
\* the call, before the
\* rows before the call; resume is, for mark_resume_generated, the path it
\* was given, the database failure it met and whether the session was
\* failed when it was called.
NoCall == [op |-> "none", rec |-> <<>>, ids |-> {}, ret |-> FALSE, count |-> 0,
           raised |-> FALSE, at |-> 0, before |-> EmptyStore.rows,
           resume |-> <<>>]

Call(op, rec, ids, ret, count, raised, before) ==
    [op |-> op, rec |-> rec, ids |-> ids, ret |-> ret, count |-> count,
     raised |-> raised, at |-> clock, before |-> before, resume |-> <<>>]

\* No adapter at work.  pc is where the adapter is, name the adapter, pages
\* the pages of results its searches show, in the order of the searches;
\* phrase is a date text with the timedelta it stands for, and dates what
\* the date parsers made of it; fetched is what fetch_jobs gave, runs the
\* number of scrapes started, seen the raw jobs of the scrapes before,
\* handed the ids handed to add_jobs, before the rows it found and added
\* what it returned.
NoAdapter ==
    [pc |-> "none", name |-> "none", pages |-> <<>>,
     phrase |-> [text |-> "", expected |-> <<>>], dates |-> <<>>,
     fetched |-> [raised |-> "none", jobs |-> <<>>], runs |-> 0, seen |-> {},
     handed |-> <<>>, before |-> {}, added |-> 0]

\* A scraper that was not run.
NotRun == [raised |-> "notrun", jobs |-> <<>>]

\* main() before it is started: pc is where main() is, names the sources
\* of run_scrapers, i the number of sources done, all_jobs the list of
\* run_scrapers, jobs_to_process and resume_paths those of main, exit the
\* status main returned (<<>>: none yet).
NotStarted ==
    [pc |-> "idle", no_email |-> FALSE, no_resume |-> FALSE, names |-> <<>>,
     i |-> 0, all_jobs |-> <<>>, jobs_to_process |-> <<>>,
     resume_paths |-> <<>>, exit |-> <<>>]

\* What was seen of the runs of main(): the number of runs started; and of
\* the current run: the rows at its start; while run_scrapers runs, what
\* scrape() returned for each source done and whether the source failed,
\* and the browser drivers that were started and not quit; the ids handed
\* to the notifier, whether the send succeeded, the ids resumes were
\* generated for, the mark_resume_generated calls made, whether an
\* interrupt arrived and where, whether the store raised in the persistence
\* step; and of all runs: ever_sent is the ids of all messages sent, resent
\* the ids that were in more than one of them, clean tells that no store
\* operation has raised, cut that an interrupt arrived after a message was
\* sent and before its jobs were marked.
NoLog ==
    [runs |-> 0, start_rows |-> {}, scraped |-> <<>>, drivers |-> {},
     handed |-> {}, notifier_called |-> FALSE, sent |-> FALSE,
     generated |-> {}, resume_calls |-> {}, interrupt |-> "none",
     store_raised |-> FALSE, ever_sent |-> {}, resent |-> {},
     clean |-> TRUE, cut |-> FALSE]

InitStore ==
    /\ store = EmptyStore
    /\ clock = 0
    /\ last = NoCall
    /\ twice = <<>>
    /\ marked = {}
    /\ scraper = [job_titles |-> <<>>, max_age_days |-> 0]
    /\ site = [fetch |-> "ok", raw_jobs |-> <<>>]
    /\ result = NotRun
    /\ adapter = NoAdapter
    /\ run = NotStarted
    /\ log = NoLog

\* Time passes between calls.
Tick ==
    /\ clock < MaxTime
    /\ clock' = clock + 1
    /\ UNCHANGED <<store, last, twice, marked, scrapeVars, mainVars>>

DoAddJob ==
    \E job_data \in JobData, fail \in FailKinds :
        LET out == AddJob(store, job_data, clock, fail)
        IN  /\ store' = out.st
            /\ last' = Call("add_job", <<job_data>>, {},
                             ~out.raised /\ out.ret, 0, out.raised, store.rows)
            /\ twice' = IF /\ last.op = "add_job" /\ last.rec = <<job_data>>
                           /\ ~last.raised /\ ~out.raised
                        THEN <<[first |-> last.ret, second |-> out.ret,
                                had |-> job_data.id \in StoredIds(last.before)]>>
                        ELSE <<>>
            /\ UNCHANGED <<clock, marked, scrapeVars, mainVars>>

\* The lists add_jobs is tried on: of one dictionary per id, and of the one
\* that cannot be inserted.
BatchData == {job_data \in JobData : job_data.title = None \/ job_data.is_eu}

Batches == UNION {[1..n -> BatchData] : n \in 0..MaxBatch}

DoAddJobs ==
    \E jobs \in Batches :
      \E failAt \in {0} :
        LET out == AddJobs(store, jobs, clock, failAt)
        IN  /\ store' = out.st
            /\ last' = Call("add_jobs", [i \in 1..Len(jobs) |-> [id |-> jobs[i].id]], {}, FALSE,
                             IF out.raised THEN 0 ELSE out.ret, out.raised, store.rows)
            /\ twice' = <<>>
            /\ UNCHANGED <<clock, marked, scrapeVars, mainVars>>

DoMarkAsNotified ==
    \E job_ids \in SUBSET Ids, fail \in FailKinds :
        LET out == MarkAsNotified(store, job_ids, clock, fail)
        IN  /\ store' = out.st
            /\ last' = Call("mark_as_notified", <<>>, job_ids, FALSE, 0,
                             out.raised, store.rows)
            /\ twice' = <<>>
            /\ marked' = IF out.raised THEN marked
                         ELSE marked \cup (job_ids \cap StoredIds(store.rows))
            /\ UNCHANGED <<clock, scrapeVars, mainVars>>

DoMarkResumeGenerated ==
    \E job_id \in Ids, resume_path \in Paths, fail \in FailKinds :
        LET out == MarkResumeGenerated(store, job_id, resume_path, fail)
        IN  /\ store' = out.st
            /\ last' = [Call("mark_resume_generated", <<>>, {job_id}, FALSE, 0,
                              out.raised, store.rows)
                         EXCEPT !.resume = <<[path |-> resume_path, fail |-> fail,
                                              failed |-> store.failed]>>]
            /\ twice' = <<>>
            /\ UNCHANGED <<clock, marked, scrapeVars, mainVars>>

NextStore ==
    \/ Tick
    \/ DoAddJob
    \/ DoAddJobs
    \/ DoMarkAsNotified
    \/ DoMarkResumeGenerated

SpecStore == InitStore /\ [][NextStore]_vars

(***************************************************************************)
(* One scraper run once on a career site: the configuration and the site   *)
(* are the inputs, scrape() is the step.                                   *)
(***************************************************************************)
\* job_preferences.titles, as configured.
JobTitleConfigs ==
    { <<>>, <<"Data Engineer">>, <<"">>, <<"ML Engineer", "data eng">> }

Scrapers == [job_titles : JobTitleConfigs, max_age_days : 0..MaxAge]

\* The time of the run, and the posting dates a site shows: from one tick
\* in the future back to MaxAge + 2 days ago.
ScrapeNow == (MaxAge + 2) * TicksPerDay
PostedDates == 0..(ScrapeNow + 1)

JobTitles == {"Senior Data Engineer II", "DATA ENGINEER", "Data Scientist", "", None}

\* Locations of the four combinations of is_eu and is_uae.
TierLocations == {"Berlin,  Deutschland", "Abu Dhabi", "Germany / UAE", "London"}

ListsOf(S, n) == UNION {[1..k -> S] : k \in 0..n}

\* Listings of jobs that all match and differ in location only.
TierListings ==
    ListsOf({RawRecord("job", "Data Engineer", l, NoDate) : l \in TierLocations},
            MaxTierJobs)

\* Listings of one job, of every title and date.
DatedListings ==
    { <<RawRecord("job", t, "London", d)>> :
        t \in JobTitles,
        d \in {DateTime(at, FALSE) : at \in PostedDates} \cup {NoDate, Aware} }

\* Listings of raw records that parse, fail to parse, match, do not match,
\* are too old, or make the filter raise.
MixedRecords ==
    { RawRecord("job", "Senior Data Engineer II", "Berlin, Germany", NoDate),
      RawRecord("job", "DATA ENGINEER", "Dubai", DateTime(ScrapeNow, FALSE)),
      RawRecord("job", "Data Scientist", "London", NoDate),
      RawRecord("job", "Data Engineer", "Paris, France", DateTime(0, FALSE)),
      RawRecord("job", "", "", NoDate),
      RawRecord("job", None, None, NoDate),
      RawRecord("none", "", "", NoDate),
      RawRecord("error", "", "", NoDate),
      RawRecord("interrupt", "", "", NoDate) }

MixedListings == ListsOf(MixedRecords, MaxJobs)

\* What fetch_jobs does: returns raw_jobs ("ok"), raises an Exception
\* ("error") or is interrupted from the keyboard ("interrupt").
Site(fetch, raw_jobs) == [fetch |-> fetch, raw_jobs |-> raw_jobs]

Sites ==
    {Site("ok", l) : l \in DatedListings \cup MixedListings}
    \cup {Site(f, <<>>) : f \in {"error", "interrupt"}}

\* The scraper the listings that differ in location only are read by.
TierScraper == [job_titles |-> <<"Data Engineer">>, max_age_days |-> MaxAge]

InitScrape ==
    /\ store = EmptyStore
    /\ clock = ScrapeNow
    /\ last = NoCall
    /\ twice = <<>>
    /\ marked = {}
    /\ \/ scraper \in Scrapers /\ site \in Sites
       \/ scraper = TierScraper /\ site \in {Site("ok", l) : l \in TierListings}
    /\ result = NotRun
    /\ adapter = NoAdapter
    /\ run = NotStarted
    /\ log = NoLog

DoScrape ==
    /\ result = NotRun
    /\ result' = scrape(scraper, site, clock)
    /\ UNCHANGED <<storeVars, scraper, site, adapter, mainVars>>

NextScrape == DoScrape

SpecScrape == InitScrape /\ [][NextScrape]_vars

(***************************************************************************)
(* The adapters (src/src/scrapers/*_scraper.py): the relative dates.       *)
(***************************************************************************)
Digits == "0123456789"

\* str.startswith
StartsWith(s, prefix) ==
    Len(prefix) <= Len(s) /\ SubSeq(s, 1, Len(prefix)) = prefix

\* s[p - 1] (positions from 1), "" past the end of s.
CharAt(s, p) == IF p >= 1 /\ p <= Len(s) THEN SubSeq(s, p, p) ELSE ""

IsDigit(c) == c # "" /\ In(c, Digits)

\* int() of one digit.
DigitValue(c) == (CHOOSE i \in 1..Len(Digits) : SubSeq(Digits, i, i) = c) - 1

\* The number of characters of the class (\d or \s) that s has from
\* position p on.
RECURSIVE DigitRun(_, _)
DigitRun(s, p) == IF IsDigit(CharAt(s, p)) THEN 1 + DigitRun(s, p + 1) ELSE 0

RECURSIVE SpaceRun(_, _)
SpaceRun(s, p) == IF CharAt(s, p) = " " THEN 1 + SpaceRun(s, p + 1) ELSE 0

\* int() of a string of digits.
RECURSIVE ToInt(_)
ToInt(s) ==
    IF s = "" THEN 0
    ELSE 10 * ToInt(SubSeq(s, 1, Len(s) - 1)) + DigitValue(SubSeq(s, Len(s), Len(s)))

\* str() of a natural number.
RECURSIVE Str(_)
Str(n) ==
    IF n < 10 THEN SubSeq(Digits, n + 1, n + 1)
    ELSE Str(n \div 10) \o SubSeq(Digits, (n % 10) + 1, (n % 10) + 1)

\* s has sub at position p.
HasAt(s, p, sub) ==
    p + Len(sub) - 1 <= Len(s) /\ SubSeq(s, p, p + Len(sub) - 1) = sub

\* re.match of (\d+)\s*(unit|...)s?\s*ago at position p of s, the units in
\* the order of the alternation: <<>> for no match, else the two groups.
MatchAt(s, p, units) ==
    LET d == DigitRun(s, p)
        q == p + d + SpaceRun(s, p + d)
        found == {k \in 1..Len(units) : HasAt(s, q, units[k])}
    IN  IF d = 0 \/ found = {} THEN <<>>
        ELSE LET k == CHOOSE k \in found : \A o \in found : k <= o
                 r == q + Len(units[k])
                 t == IF CharAt(s, r) = "s" THEN r + 1 ELSE r
             IN  IF HasAt(s, t + SpaceRun(s, t), "ago")
                 THEN <<[num |-> ToInt(SubSeq(s, p, p + d - 1)), unit |-> units[k]]>>
                 ELSE <<>>

\* re.search: the match at the leftmost position that has one.
Search(s, units) ==
    LET at == {p \in 1..Len(s) : MatchAt(s, p, units) # <<>>}
    IN  IF at = {} THEN <<>>
        ELSE MatchAt(s, CHOOSE p \in at : \A o \in at : p <= o, units)

\* An Optional[datetime] an adapter computes from datetime.now(): NoDate
\* for None, else the timedelta that was subtracted from now, in hours.
Before(hours) == <<hours>>

\* The timedelta of num units, in hours; a month is timedelta(days=num * 30).
HoursOf(num, unit) ==
    IF unit = "hour" THEN num
    ELSE IF unit = "day" THEN 24 * num
    ELSE IF unit = "week" THEN 7 * 24 * num
    ELSE 30 * 24 * num

\* GoogleScraper._parse_date
GoogleParseDate(date_str) ==
    LET date_lower == Lower(date_str)
        match == Search(date_lower, <<"day", "week", "month">>)
    IN  IF In("today", date_lower) \/ In("just", date_lower) THEN Before(0)
        ELSE IF In("yesterday", date_lower) THEN Before(24)
        ELSE IF match # <<>> THEN Before(HoursOf(match[1].num, match[1].unit))
        ELSE NoDate

\* LinkedInScraper._parse_relative_date
LinkedInParseRelativeDate(date_str) ==
    LET date_lower == Lower(date_str)
        match == Search(date_lower, <<"day", "week", "month", "hour">>)
    IN  IF In("just now", date_lower) \/ In("today", date_lower) THEN Before(0)
        ELSE IF match # <<>> THEN Before(HoursOf(match[1].num, match[1].unit))
        ELSE NoDate

(***************************************************************************)
(* The adapters: what they read from a page of search results.             *)
(***************************************************************************)
AdapterNames ==
    {"google", "meta", "apple", "netflix", "linkedin", "bayt", "gulftalent"}

\* The adapters that read a card with Selenium, where find_element raises
\* for an element that is missing; the others read it with BeautifulSoup,
\* where select_one returns None.
SeleniumAdapters == {"google", "meta", "apple", "linkedin"}

\* The adapters whose id is made of the company, not of the location.
CompanyKeyed == {"linkedin", "bayt", "gulftalent"}

\* One card of a page of results.  title, company, location and posted are
\* the texts of its elements, None for an element that is missing; url is
\* the href of its link; broken tells that reading it raises (a stale
\* element); detail is the posting date its detail page shows (None: no
\* date, or the page does not load); parse tells whether something raises
\* inside parse_job for it.
Card(title, company, location, url, posted, detail, broken, parse) ==
    [title |-> title, company |-> company, location |-> location, url |-> url,
     posted |-> posted, detail |-> detail, broken |-> broken, parse |-> parse]

\* hashlib.md5(s.encode()).hexdigest()[:12], taken as free of collisions:
\* one id for each string hashed.
md5_12(s) == "md5:" \o s

\* The site the relative links of an adapter are completed with.
SiteOf(name) ==
    IF name = "meta" THEN "https://www.metacareers.com"
    ELSE IF name = "netflix" THEN "https://jobs.netflix.com"
    ELSE IF name = "bayt" THEN "https://www.bayt.com"
    ELSE "https://www.gulftalent.com"

\* url if url.startswith('http') else f"{site}{url}"
Absolute(name, url) ==
    IF url # "" /\ ~StartsWith(url, "http") THEN SiteOf(name) \o url ELSE url

\* A text that is None is replaced.
OrElse(text, default) == IF text = None THEN default ELSE text

\* A raw job as _extract_job_from_card returns it; card is the card it was
\* read from.
RawJobOf(id, title, company, location, url, posted_date, card) ==
    [id |-> id, title |-> title, company |-> company, location |-> location,
     url |-> url, posted_date |-> posted_date, card |-> card]

\* A slip: the id is made of every field read from the card.
IdOf_AllFields(name, title, company, location, url) ==
    md5_12(title \o company \o location \o url)

\* job_id = hashlib.md5(f"{title}{location}{url}".encode()).hexdigest()[:12],
\* with company for location in the LinkedIn, Bayt and GulfTalent adapters.
IdOf(name, title, company, location, url) ==
    md5_12(title \o (IF name \in CompanyKeyed THEN company ELSE location) \o url)

\* _extract_job_from_card (_extract_job_from_row): <<>> for None, else the
\* raw job.  A missing title element (and link) makes the Selenium adapters
\* return None and the others read "" for title and url; a missing location
\* makes the Google adapter return None, the others fall back on the
\* location searched for or on "UAE"; a missing company reads "Unknown".
\* Meta makes the id of the link as read and completes the link afterwards,
\* Netflix, Bayt and GulfTalent complete it first.
extract_job_from_card(name, card, search_location) ==
    IF card.broken THEN <<>>
    ELSE IF card.title = None /\ name \in SeleniumAdapters THEN <<>>
    ELSE IF card.location = None /\ name = "google" THEN <<>>
    ELSE LET title == OrElse(card.title, "")
             href == IF card.title = None THEN "" ELSE card.url
             url == IF name \in {"netflix", "bayt", "gulftalent"}
                    THEN Absolute(name, href) ELSE href
             company == IF name \in CompanyKeyed
                        THEN OrElse(card.company, "Unknown") ELSE None
             location == IF name \in {"bayt", "gulftalent"}
                         THEN OrElse(card.location, "UAE")
                         ELSE OrElse(card.location, search_location)
             posted_date == IF name \in {"linkedin", "apple", "bayt"}
                            THEN card.posted ELSE None
         IN  <<RawJobOf(IdOf(name, title, company, location, url), title, company,
                        location,
                        IF name = "meta" THEN Absolute(name, url) ELSE url,
                        posted_date, card)>>

\* The loop of fetch_jobs over the cards of one page, from card i on.
RECURSIVE ExtractCards(_, _, _, _)
ExtractCards(name, cards, i, search_location) ==
    IF i > Len(cards) THEN <<>>
    ELSE extract_job_from_card(name, cards[i], search_location)
             \o ExtractCards(name, cards, i + 1, search_location)

\* A page of results: it loads and shows cards, or loading it raises.
Page(load, cards) == [load |-> load, cards |-> cards]

\* The page of the k-th search: a search the site was not set up for shows
\* no cards.
PageOf(pages, k) == IF k <= Len(pages) THEN pages[k] ELSE Page("ok", <<>>)

\* job_preferences.locations of the configuration: priority + secondary.
ConfiguredLocations == <<"Berlin", "Dubai">>

\* The searches of fetch_jobs: LinkedIn has three of its own, Bayt and
\* GulfTalent read one page, the others search the first five configured
\* locations.
SearchLocations(name) ==
    IF name = "linkedin"
    THEN <<"Dubai, UAE", "Abu Dhabi, UAE", "United Arab Emirates">>
    ELSE IF name \in {"bayt", "gulftalent"} THEN <<"UAE">>
    ELSE SubSeq(ConfiguredLocations, 1,
                IF Len(ConfiguredLocations) < 5 THEN Len(ConfiguredLocations) ELSE 5)

\* A slip: fetch_jobs has no try/except around a page.
FetchPageExcept_Raises(rest) == [raised |-> "error", jobs |-> <<>>]

\* The except Exception branch around a page in fetch_jobs: log and
\* continue with the searches that remain (rest is what they give).
FetchPageExcept(rest) == rest

\* fetch_jobs, from search k on: the raw jobs collected, or what was
\* raised.
RECURSIVE FetchLoop(_, _, _)
FetchLoop(name, pages, k) ==
    IF k > Len(SearchLocations(name)) THEN [raised |-> "none", jobs |-> <<>>]
    ELSE LET page == PageOf(pages, k)
             rest == FetchLoop(name, pages, k + 1)
         IN  IF page.load # "ok" THEN FetchPageExcept(rest)
             ELSE IF rest.raised # "none" THEN rest
             ELSE [rest EXCEPT !.jobs =
                      ExtractCards(name, page.cards, 1, SearchLocations(name)[k]) \o @]

\* fetch_jobs of the adapter.
FetchJobs(name, pages) == FetchLoop(name, pages, 1)

\* if text: of a text that may be None.
Truthy(text) == text # None /\ text # ""

\* The posting dates the sites of the model show in ISO format, with the
\* hours they lie before the time of the scrape; a date that ends in Z
\* carries a timezone.
IsoDates == << <<"2026-11-01", 72>>, <<"2026-11-01T00:00:00Z", 72>> >>

\* datetime.fromisoformat(text.replace('Z', '+00:00')), with what raises:
\* <<>> for a ValueError, else the hours before now and whether the
\* datetime carries a timezone.
FromIsoFormat(text) ==
    LET iso == Replace(text, "Z", "+00:00")
        known == {k \in 1..Len(IsoDates) :
                     Replace(IsoDates[k][1], "Z", "+00:00") = iso}
    IN  IF known = {} THEN <<>>
        ELSE LET k == CHOOSE k \in known : TRUE
             IN  <<[hours |-> IsoDates[k][2], tzinfo |-> In("+", iso)]>>

\* The dates the sites of the model show in Apple's format.
AppleDates == << <<"Nov 01, 2026", 72>>, <<"November 01, 2026", 72>> >>

\* AppleScraper._parse_date: strptime with %b %d, %Y, then %B %d, %Y.
AppleParseDate(date_str) ==
    LET known == {k \in 1..Len(AppleDates) : AppleDates[k][1] = date_str}
    IN  IF known = {} THEN NoDate
        ELSE Before(AppleDates[CHOOSE k \in known : TRUE][2])

\* The datetime that lies a timedelta before now.
PostedAt(before, now, tzinfo) ==
    IF before = NoDate THEN NoDate
    ELSE DateTime(now - (before[1] * TicksPerDay) \div 24, tzinfo)

\* The posted_date parse_job gives the Job.  Google reads it on the detail
\* page, LinkedIn and Apple take it from the card; Meta and Netflix set
\* datetime.now() - timedelta(days=15), Bayt and GulfTalent
\* datetime.now() - timedelta(days=7), whatever the listing shows.
PostedDateOf(name, raw_job, now) ==
    IF name = "google"
    THEN IF raw_job.url # "" /\ Truthy(raw_job.card.detail)
         THEN PostedAt(GoogleParseDate(raw_job.card.detail), now, FALSE)
         ELSE NoDate
    ELSE IF name = "linkedin"
    THEN IF ~Truthy(raw_job.posted_date) THEN NoDate
         ELSE LET iso == FromIsoFormat(raw_job.posted_date)
              IN  IF iso # <<>>
                  THEN PostedAt(Before(iso[1].hours), now, iso[1].tzinfo)
                  ELSE PostedAt(LinkedInParseRelativeDate(raw_job.posted_date),
                                now, FALSE)
    ELSE IF name = "apple"
    THEN IF Truthy(raw_job.posted_date)
         THEN PostedAt(AppleParseDate(raw_job.posted_date), now, FALSE)
         ELSE NoDate
    ELSE IF name \in {"meta", "netflix"} THEN PostedAt(Before(15 * 24), now, FALSE)
    ELSE PostedAt(Before(7 * 24), now, FALSE)

\* A slip: parse_job has no try/except and what is raised leaves it.
ParseJobExcept_Raises(raw_job) ==
    RawRecord("error", raw_job.title, raw_job.location, NoDate)

\* The except Exception branch of parse_job: log and return None.
ParseJobExcept(raw_job) ==
    RawRecord("none", raw_job.title, raw_job.location, NoDate)

\* parse_job of the adapter, as the record the parse loop of scrape() reads:
\* parse tells whether a Job or None is returned, the other fields are those
\* of the Job.
parse_job(name, raw_job, now) ==
    IF raw_job.card.parse = "error" THEN ParseJobExcept(raw_job)
    ELSE RawRecord("job", raw_job.title, raw_job.location,
                   PostedDateOf(name, raw_job, now))

\* The raw jobs with what parse_job makes of each, and the id of each.
ParsedBy(name, raw_jobs, now) ==
    [i \in 1..Len(raw_jobs) |->
        LET parsed == parse_job(name, raw_jobs[i], now)
        IN  [parse |-> parsed.parse, id |-> raw_jobs[i].id, title |-> parsed.title,
             location |-> parsed.location, posted_date |-> parsed.posted_date]]

(***************************************************************************)
(* src/main.py                                                             *)
(***************************************************************************)
\* get_scraper: every scraper class takes its criteria from the one config.
get_scraper(name) == TierScraper

\* Job.to_dict; the id is the one parse_job gave the job from its raw
\* record.
to_dict(job, raw_jobs) ==
    JobDict(raw_jobs[job.obj].id, job.title, job.is_eu, job.is_uae)

\* [job.to_dict() for job in jobs]
ToDicts(jobs, raw_jobs) == [k \in 1..Len(jobs) |-> to_dict(jobs[k], raw_jobs)]

\* Where a keyboard interrupt arrives while a source is fetched: not at
\* all, while a card of the listing is read ("card"), or elsewhere in
\* fetch_jobs ("page").
InterruptPoints == {"none", "card", "page"}

\* The adapters that read the fields of a card inside try: ... except:
\* (linkedin_scraper.py:100-118, apple_scraper.py:86-97,
\* meta_scraper.py:101-105).
BareExceptAdapters == {"linkedin", "apple", "meta"}

\* An adapter's fetch_jobs met by an interrupt: a bare except around the
\* reading of a card takes the KeyboardInterrupt for a missing field and
\* fetch_jobs goes on; every other handler is except Exception and lets it
\* pass.
fetch_jobs(name, web, interrupt) ==
    IF \/ interrupt = "page"
       \/ interrupt = "card" /\ name \notin BareExceptAdapters
    THEN [web EXCEPT !.fetch = "interrupt"]
    ELSE web

\* The lists of sources a run is started with (--only).
SourceLists == {<<"google", "linkedin">>, <<"linkedin", "google">>}
SourceNames == {"google", "linkedin"}

\* A raw record as an adapter's fetch_jobs returns it: parse_job makes a
\* Job of it.
RawJob(id, location, posted_date) ==
    [parse |-> "job", id |-> id, title |-> "Data Engineer",
     location |-> location, posted_date |-> posted_date]

\* What the sources show: google nothing, a job in London, or that and one
\* in Berlin; linkedin nothing, the job in Berlin found for Dubai, or one
\* whose date carries a timezone (datetime.fromisoformat of "...+00:00");
\* and each may fail to load.
Listings(name) ==
    IF name = "google"
    THEN { <<>>,
           <<RawJob("j1", "London", NoDate)>>,
           <<RawJob("j1", "London", NoDate), RawJob("j2", "Berlin, Germany", NoDate)>> }
    ELSE { <<>>,
           <<RawJob("j2", "Dubai, UAE", NoDate)>>,
           <<RawJob("j3", "Dubai, UAE", Aware)>> }

MainSites(name) ==
    {Site("ok", l) : l \in Listings(name)} \cup {Site("error", <<>>)}

\* scraper.scrape() of every source, on everything it may meet, at the time
\* of the runs.
Scrapes ==
    [name \in SourceNames |->
        [web \in MainSites(name) |->
            [interrupt \in InterruptPoints |->
                scrape(get_scraper(name), fetch_jobs(name, web, interrupt), ScrapeNow)]]]

\* What raises in one source of run_scrapers besides scrape(): nothing,
\* get_scraper ("construct"), webdriver.Chrome in setup_driver ("chrome"),
\* driver.set_page_load_timeout in setup_driver ("timeout"), to_dict
\* ("convert").
ScraperFails == {"none", "construct", "chrome", "timeout", "convert"}

\* The result of one source: what was raised out of run_scrapers, the
\* dictionaries added to all_jobs, what scrape() returned (as
\* dictionaries), whether scrape() was called, and the browser driver:
\* never started ("none"), quit by __exit__ ("quit"), or started and not
\* quit ("running").
SourceResult(raised, job_dicts, returned, scraped, driver) ==
    [raised |-> raised, job_dicts |-> job_dicts, returned |-> returned,
     scraped |-> scraped, driver |-> driver]

\* A slip: the except branch of run_scrapers re-raises.
RunScraperExcept_Raises(driver) == SourceResult("error", <<>>, <<>>, FALSE, driver)

\* The except Exception branch of run_scrapers: log and continue.
RunScraperExcept(driver) == SourceResult("none", <<>>, <<>>, FALSE, driver)

\* One turn of the loop of run_scrapers.  setup_driver assigns self.driver
\* only when it returns: a driver whose set_page_load_timeout raises is
\* started and never quit.
RunScraper(name, web, fail, interrupt, now) ==
    IF fail \in {"construct", "chrome"} THEN RunScraperExcept("none")
    ELSE IF fail = "timeout" THEN RunScraperExcept("running")
    ELSE LET jobs == IF now = ScrapeNow THEN Scrapes[name][web][interrupt]
                     ELSE scrape(get_scraper(name),
                                 fetch_jobs(name, web, interrupt), now)
             job_dicts == ToDicts(jobs.jobs, web.raw_jobs)
         IN  IF jobs.raised # "none"
             THEN SourceResult(jobs.raised, <<>>, <<>>, TRUE, "quit")
             ELSE IF fail = "convert"
             THEN [RunScraperExcept("quit") EXCEPT !.returned = job_dicts,
                                                    !.scraped = TRUE]
             ELSE SourceResult("none", job_dicts, job_dicts, TRUE, "quit")

\* A slip: all_jobs = job_dicts + all_jobs.
Extend_AtFront(all_jobs, job_dicts) == job_dicts \o all_jobs

\* all_jobs.extend(job_dicts)
Extend(all_jobs, job_dicts) == all_jobs \o job_dicts

\* JobStore(): a new session on the database file.
JobStore(st) == [st EXCEPT !.pending = {}, !.failed = FALSE]

\* The orders in which a query without ORDER BY may return a set of rows.
Orderings(S) ==
    {f \in [1..Cardinality(S) -> S] : \A a, b \in 1..Cardinality(S) : f[a] = f[b] => a = b}

\* main: the dictionary made of a row for jobs_to_process.
ToProcess(row) == JobDict(row.id, row.title, row.is_eu, row.is_uae)

\* generator.generate: the file written for that job.
ResumeFile(job) == "resume_" \o job.id \o ".docx"

\* process_jobs: the paths of the resumes generated, in the order of jobs,
\* of the jobs whose processing did not raise; cv tells whether the
\* resume to tailor exists.
RECURSIVE ProcessLoop(_, _, _)
ProcessLoop(jobs, i, fails) ==
    IF i > Len(jobs) THEN <<>>
    ELSE IF jobs[i].id \in fails THEN ProcessLoop(jobs, i + 1, fails)
    ELSE <<ResumeFile(jobs[i])>> \o ProcessLoop(jobs, i + 1, fails)

process_jobs(jobs, cv, fails) ==
    IF jobs = <<>> \/ cv = "missing" THEN <<>>
    ELSE ProcessLoop(jobs, 1, fails)

\* main: resume_paths[i], the path handed to mark_resume_generated for
\* jobs_to_process[i].
ResumePathFor(jobs_to_process, resume_paths, i) == resume_paths[i]

\* main: for i, job in enumerate(jobs_to_process): if i < len(resume_paths):
\* store.mark_resume_generated(job['id'], resume_paths[i]); db is the
\* failure the first call meets.
RECURSIVE MarkResumes(_, _, _, _, _)
MarkResumes(st, jobs_to_process, resume_paths, i, db) ==
    IF i > Len(jobs_to_process) \/ i > Len(resume_paths)
    THEN [st |-> st, raised |-> FALSE, calls |-> {}]
    ELSE LET job == jobs_to_process[i]
             path == ResumePathFor(jobs_to_process, resume_paths, i)
             call == [id |-> job.id, path |-> path]
             out == MarkResumeGenerated(st, job.id, path,
                                        IF i = 1 THEN db ELSE "none")
         IN  IF out.raised
             THEN [st |-> out.st, raised |-> TRUE, calls |-> {call}]
             ELSE LET rest == MarkResumes(out.st, jobs_to_process, resume_paths,
                                          i + 1, db)
                  IN  [rest EXCEPT !.calls = @ \cup {call}]

\* What happens in the SMTP session of send_notification and right after
\* it: the message is sent ("ok"), an exception is raised before it is
\* ("error"), a keyboard interrupt arrives before it is ("interrupt"), or
\* the message is sent and a keyboard interrupt arrives before
\* mark_as_notified has committed ("ok_interrupt").
SmtpOutcomes == {"ok", "error", "interrupt", "ok_interrupt"}

\* send_message of smtplib was called and returned: the message is sent.
Delivered(jobs, credentials, smtp) ==
    jobs # <<>> /\ credentials /\ smtp \in {"ok", "ok_interrupt"}

\* A slip: send_notification returns True from its except branch as well.
send_notification_AlwaysTrue(jobs, credentials, smtp) == TRUE

\* EmailNotifier.send_notification: True only when the message was sent.
send_notification(jobs, credentials, smtp) ==
    IF jobs = <<>> THEN FALSE
    ELSE IF ~credentials THEN FALSE
    ELSE smtp = "ok"

\* A slip: main logs what was raised and returns 0.
MainExcept_ReturnsZero(raised) == IF raised = "interrupt" THEN 130 ELSE 0

\* The except branches of main: 130 for a KeyboardInterrupt, 1 for an
\* Exception.
MainExcept(raised) == IF raised = "interrupt" THEN 130 ELSE 1

\* main returns: its local variables are gone.
Exit(r, status) ==
    [NotStarted EXCEPT !.pc = "exited", !.exit = <<status>>,
                       !.no_email = r.no_email, !.no_resume = r.no_resume]

\* run_scrapers has returned: what was seen of it is dropped.
Scraped(l) == [l EXCEPT !.scraped = <<>>, !.drivers = {}]

(***************************************************************************)
(* main() as a state machine: run after run on one database, each run the  *)
(* scan pipeline step by step.                                             *)
(***************************************************************************)
InitMain ==
    /\ store = EmptyStore
    /\ clock = ScrapeNow
    /\ last = NoCall
    /\ twice = <<>>
    /\ marked = {}
    /\ scraper = TierScraper
    /\ site = Site("ok", <<>>)
    /\ result = NotRun
    /\ adapter = NoAdapter
    /\ run = NotStarted
    /\ log = NoLog

\* main() is started (main.py:171-253): the arguments are parsed, and the
\* full scan begins with run_scrapers.
StartRun ==
    /\ run.pc \in {"idle", "exited"}
    /\ log.runs < MaxRuns
    /\ \E no_email, no_resume \in BOOLEAN, only \in SourceLists :
          run' = [NotStarted EXCEPT !.pc = "scrapers", !.no_email = no_email,
                                    !.no_resume = no_resume, !.names = only]
    /\ log' = [NoLog EXCEPT !.runs = log.runs + 1, !.start_rows = store.rows,
                            !.ever_sent = log.ever_sent, !.resent = log.resent,
                            !.clean = log.clean, !.cut = log.cut]
    /\ UNCHANGED <<storeVars, scrapeVars>>

\* One turn of the loop of run_scrapers (main.py:83-98); a KeyboardInterrupt
\* leaves run_scrapers and main returns 130 (main.py:320-322), any other
\* exception that leaves it makes main return 1 (main.py:323-325).  An
\* interrupt while a card is read needs a page that loaded and has cards.
ScrapeNext ==
    /\ run.pc = "scrapers"
    /\ run.i < Len(run.names)
    /\ \E fail \in ScraperFails, interrupt \in InterruptPoints :
        \E web \in MainSites(run.names[run.i + 1]) :
          LET name == run.names[run.i + 1]
              out == RunScraper(name, web, fail, interrupt, clock)
          IN  /\ interrupt = "card" => web.fetch = "ok" /\ web.raw_jobs # <<>>
              /\ run' = IF out.raised # "none" THEN Exit(run, MainExcept(out.raised))
                        ELSE [run EXCEPT !.i = @ + 1,
                                         !.all_jobs = Extend(@, out.job_dicts)]
              /\ log' = [log EXCEPT
                            !.scraped = Append(@, [name |-> name,
                                                   failed |-> fail # "none",
                                                   returned |-> out.returned,
                                                   open |-> log.drivers # {}]),
                            !.drivers = IF out.driver = "running"
                                        THEN @ \cup {name} ELSE @,
                            !.interrupt = IF out.scraped /\ interrupt # "none"
                                          THEN interrupt ELSE @]
    /\ UNCHANGED <<storeVars, scrapeVars>>

\* main.py:255-289: nothing scraped ends the run; otherwise the jobs are
\* stored and the unnotified rows are read back.  failAt is the record
\* whose commit fails (0: none); an interrupt arrives, if it does, before
\* the first commit.
PersistJobs ==
    /\ run.pc = "scrapers"
    /\ run.i = Len(run.names)
    /\ IF run.all_jobs = <<>>
       THEN /\ run' = Exit(run, 0)
            /\ log' = Scraped(log)
            /\ UNCHANGED store
       ELSE \E failAt \in {0, 1}, interrupt \in BOOLEAN :
              LET out == AddJobs(JobStore(store), run.all_jobs, clock, failAt)
                  unnotified == GetUnnotifiedJobs(out.st.rows)
              IN  IF interrupt
                  THEN /\ run' = Exit(run, MainExcept("interrupt"))
                       /\ store' = JobStore(store)
                       /\ log' = [Scraped(log) EXCEPT !.interrupt = "store"]
                  ELSE IF out.raised
                  THEN /\ run' = Exit(run, MainExcept("error"))
                       /\ store' = out.st
                       /\ log' = [Scraped(log) EXCEPT !.store_raised = TRUE,
                                                       !.clean = FALSE]
                  ELSE IF unnotified = {}
                  THEN /\ run' = Exit(run, 0)
                       /\ store' = out.st
                       /\ log' = Scraped(log)
                  ELSE /\ \E rows \in Orderings(unnotified) :
                             run' = [run EXCEPT
                                        !.pc = "resumes",
                                        !.names = <<>>, !.i = 0, !.all_jobs = <<>>,
                                        !.jobs_to_process =
                                            [k \in 1..Len(rows) |-> ToProcess(rows[k])]]
                       /\ store' = out.st
                       /\ log' = Scraped(log)
    /\ UNCHANGED <<clock, last, twice, marked, scrapeVars>>

\* main.py:291-299: resumes are generated unless --no-resume, and the rows
\* are given their paths.  fails is the jobs whose processing raises.
GenerateResumes ==
    /\ run.pc = "resumes"
    /\ IF run.no_resume
       THEN /\ run' = [run EXCEPT !.pc = "email"]
            /\ UNCHANGED <<store, log>>
       ELSE \E cv \in {"ok", "missing"}, db \in {"none", "commit"},
               interrupt \in BOOLEAN,
               fails \in SUBSET {run.jobs_to_process[k].id :
                                    k \in 1..Len(run.jobs_to_process)} :
              LET resume_paths == process_jobs(run.jobs_to_process, cv, fails)
                  out == MarkResumes(store, run.jobs_to_process, resume_paths, 1, db)
                  generated == IF cv = "missing" THEN {}
                               ELSE {run.jobs_to_process[k].id :
                                        k \in 1..Len(run.jobs_to_process)} \ fails
              IN  IF interrupt
                  THEN /\ run' = Exit(run, MainExcept("interrupt"))
                       /\ log' = [log EXCEPT !.interrupt = "resume"]
                       /\ UNCHANGED store
                  ELSE /\ run' = IF out.raised
                                 THEN Exit(run, MainExcept("error"))
                                 ELSE [run EXCEPT !.pc = "email",
                                                  !.resume_paths = resume_paths]
                       /\ store' = out.st
                       /\ log' = [log EXCEPT !.generated = generated,
                                             !.resume_calls = out.calls,
                                             !.clean = @ /\ ~out.raised]
    /\ UNCHANGED <<clock, last, twice, marked, scrapeVars>>

\* main.py:301-318: the notification is sent unless --no-email, and the
\* jobs of a send that succeeded are marked; a keyboard interrupt ends the
\* run where it arrives.
SendEmail ==
    /\ run.pc = "email"
    /\ IF run.no_email
       THEN /\ run' = Exit(run, 0)
            /\ UNCHANGED <<store, log>>
       ELSE \E credentials \in BOOLEAN, smtp \in SmtpOutcomes, fail \in FailKinds :
              LET job_ids == {run.jobs_to_process[k].id :
                                 k \in 1..Len(run.jobs_to_process)}
                  called == [log EXCEPT !.handed = job_ids, !.notifier_called = TRUE]
                  out == MarkAsNotified(store, job_ids, clock, fail)
              IN  IF credentials /\ smtp = "interrupt"
                  THEN /\ run' = Exit(run, MainExcept("interrupt"))
                       /\ log' = [called EXCEPT !.interrupt = "email"]
                       /\ UNCHANGED store
                  ELSE LET sent == Delivered(run.jobs_to_process, credentials, smtp)
                           seen == [called EXCEPT
                                       !.sent = sent,
                                       !.ever_sent = IF sent THEN @ \cup job_ids ELSE @,
                                       !.resent = IF sent
                                                  THEN @ \cup (job_ids \cap log.ever_sent)
                                                  ELSE @]
                       IN  IF credentials /\ smtp = "ok_interrupt"
                           THEN /\ run' = Exit(run, MainExcept("interrupt"))
                                /\ log' = [seen EXCEPT !.interrupt = "email",
                                                       !.cut = TRUE]
                                /\ UNCHANGED store
                           ELSE IF send_notification(run.jobs_to_process, credentials, smtp)
                           THEN /\ run' = Exit(run, IF out.raised
                                                    THEN MainExcept("error") ELSE 0)
                                /\ store' = out.st
                                /\ log' = [seen EXCEPT !.clean = @ /\ ~out.raised]
                           ELSE /\ run' = Exit(run, 0)
                                /\ log' = seen
                                /\ UNCHANGED store
    /\ UNCHANGED <<clock, last, twice, marked, scrapeVars>>

NextMain ==
    \/ StartRun
    \/ ScrapeNext
    \/ PersistJobs
    \/ GenerateResumes
    \/ SendEmail

SpecMain == InitMain /\ [][NextMain]_vars

(***************************************************************************)
(* Claims about the store, checked under SpecStore.                        *)
(***************************************************************************)

\* The content add_job copies from a dictionary into its row.
SameContent(row, job_data) ==
    /\ row.title = job_data.title
    /\ row.is_eu = job_data.is_eu
    /\ row.is_uae = job_data.is_uae

\* C1: when add_job(r) is called twice in a row and both calls return, the
\* first returns True exactly when r.id was not stored before it, the second
\* returns False, and the second changes nothing: the rows, and so the total
\* of get_stats, are those before the second call.
C1_AddTwiceTrueThenFalse ==
    twice # <<>> =>
        /\ twice[1].first = ~twice[1].had
        /\ twice[1].second = FALSE
        /\ store.rows = last.before
        /\ GetStats(store.rows).total_jobs = GetStats(last.before).total_jobs

\* C1's case: the same record was added twice and the first call inserted it.
C1_Witness ==
    /\ twice # <<>>
    /\ twice[1].first
    /\ ~twice[1].had
    /\ last.rec[1].id \in StoredIds(store.rows)

\* C2: an add_job that returns has inserted a row (and returned True) if and
\* only if no row of the record's id was stored; otherwise it returned False
\* and every stored row is unchanged in every field, whatever the other
\* fields of the record are.  No two stored rows ever share an id.
C2_DedupByIdAlone ==
    /\ \A r1, r2 \in store.rows : r1.id = r2.id => r1 = r2
    /\ (last.op = "add_job" /\ ~last.raised) =>
          LET job_data == last.rec[1]
          IN  IF job_data.id \in StoredIds(last.before)
              THEN last.ret = FALSE /\ store.rows = last.before
              ELSE /\ last.ret = TRUE
                   /\ store.rows = last.before \cup {NewRow(job_data, last.at)}

\* C2's case: a record whose id is stored with other content was added, and
\* the stored row is one that was notified and has a resume.
C2_Witness ==
    /\ last.op = "add_job"
    /\ ~last.raised
    /\ ~last.ret
    /\ \E r \in store.rows :
          /\ r.id = last.rec[1].id
          /\ ~SameContent(r, last.rec[1])
          /\ r.notified
          /\ r.resume_generated

\* C3: get_unnotified_jobs returns exactly the stored rows whose id was not
\* handed, since the row was inserted, to a mark_as_notified call that
\* returned; and mark_resume_generated leaves the ids of the rows it returns
\* as they were.
C3_UnnotifiedExact ==
    /\ GetUnnotifiedJobs(store.rows) = {r \in store.rows : r.id \notin marked}
    /\ last.op = "mark_resume_generated" =>
          StoredIds(GetUnnotifiedJobs(store.rows))
              = StoredIds(GetUnnotifiedJobs(last.before))

\* C3's case: j1 and j2 are stored unnotified, mark_as_notified(["j1"])
\* returned, and what is left unnotified is exactly j2.
C3_Witness ==
    /\ last.op = "mark_as_notified"
    /\ ~last.raised
    /\ last.ids = {"j1"}
    /\ StoredIds(GetUnnotifiedJobs(last.before)) = {"j1", "j2"}
    /\ StoredIds(GetUnnotifiedJobs(store.rows)) = {"j2"}

\* C8: an add_job that fails raises; then nothing of the insert is left in
\* the session, every committed row is as before the call, and the session is
\* usable again.  A False return is given for a stored id only, never for a
\* failure.
C8_AddFailureRollsBackAndRaises ==
    last.op = "add_job" =>
        /\ last.raised =>
              /\ store.rows = last.before
              /\ store.pending = {}
              /\ ~store.failed
        /\ (~last.raised /\ ~last.ret) =>
              last.rec[1].id \in StoredIds(last.before)

\* C8's case: with rows stored, add_job of a record that cannot be inserted
\* (its id is new, its title NULL) raised.
C8_Witness ==
    /\ last.op = "add_job"
    /\ last.raised
    /\ last.rec[1].title = None
    /\ last.rec[1].id \notin StoredIds(last.before)
    /\ last.before # {}

\* C9: a mutating call that raises leaves the rows of the store as they were
\* before the call.
C9_EveryCallAtomic ==
    last.raised => store.rows = last.before

\* C10 as stated: a mark_as_notified(ids) that returns, on a store where
\* every id of ids is stored and notified, leaves every row unchanged,
\* notified_at included; and a mark_as_notified that returns creates no row.
C10_MarkNotifiedNoOp ==
    (last.op = "mark_as_notified" /\ ~last.raised) =>
        /\ StoredIds(store.rows) = StoredIds(last.before)
        /\ last.ids \subseteq {b.id : b \in {r \in last.before : r.notified}}
              => store.rows = last.before

\* C10 amended: a mark_as_notified(ids) that returns creates and removes no
\* row, leaves every row whose id is not in ids unchanged, and changes a row
\* whose id is in ids in two fields at most: notified becomes (or stays)
\* true and notified_at becomes the time of the call.
C10_MarkNotifiedKeepsAllButTimestamp ==
    (last.op = "mark_as_notified" /\ ~last.raised) =>
        /\ StoredIds(store.rows) = StoredIds(last.before)
        /\ Cardinality(store.rows) = Cardinality(last.before)
        /\ \A b \in last.before :
              IF b.id \in last.ids
              THEN [b EXCEPT !.notified = TRUE, !.notified_at = last.at] \in store.rows
              ELSE b \in store.rows

\* C10's case: an id that was already notified was marked again, at a later
\* time, together with an id that is not stored.
C10_Witness ==
    /\ last.op = "mark_as_notified"
    /\ ~last.raised
    /\ \E b \in last.before :
          b.id \in last.ids /\ b.notified /\ b.notified_at < last.at
    /\ last.ids \ StoredIds(last.before) # {}

\* C11: a mark_resume_generated(id, path) that returns sets resume_generated
\* and resume_path of the row of that id and changes nothing else: its
\* notified state, its other columns and every other row are as before; when
\* no row has that id the rows are unchanged, and unless the database fails
\* nothing is raised.  The resumes_generated count of get_stats grows by one
\* exactly when the row had no resume before.
C11_MarkResumeGeneratedFrame ==
    last.op = "mark_resume_generated" =>
        LET job_id == CHOOSE id \in last.ids : TRUE
            call == last.resume[1]
            old == RowsOf(last.before, job_id)
        IN  /\ (old = {} /\ ~call.failed /\ call.fail # "query") =>
                   ~last.raised /\ store.rows = last.before
            /\ (call.fail = "none" /\ ~call.failed) => ~last.raised
            /\ (~last.raised /\ old # {}) =>
                   /\ \A b \in last.before :
                         IF b.id = job_id
                         THEN [b EXCEPT !.resume_generated = TRUE,
                                        !.resume_path = call.path] \in store.rows
                         ELSE b \in store.rows
                   /\ Cardinality(store.rows) = Cardinality(last.before)
                   /\ \A r \in store.rows, b \in last.before :
                         r.id = b.id => r.notified = b.notified
                   /\ GetStats(store.rows).resumes_generated
                         = GetStats(last.before).resumes_generated
                           + (IF \E b \in old : b.resume_generated THEN 0 ELSE 1)

\* C11's case: j1 and j2 are stored without resumes, j1 notified and j2
\* not; mark_resume_generated("j2", p) returned and get_stats counts one
\* resume.
C11_Witness ==
    /\ last.op = "mark_resume_generated"
    /\ ~last.raised
    /\ last.ids = {"j2"}
    /\ StoredIds(last.before) = {"j1", "j2"}
    /\ \A b \in last.before : ~b.resume_generated /\ (b.notified <=> b.id = "j1")
    /\ GetStats(store.rows).resumes_generated = 1
    /\ \E r \in store.rows : r.id = "j2" /\ r.resume_path = last.resume[1].path

\* The ids of the dictionaries of a list.
IdsOf(jobs) == {jobs[i].id : i \in 1..Len(jobs)}

\* C12: an add_jobs(jobs) that returns gives the number of rows it inserted,
\* which is the number of distinct ids of jobs that were not stored before:
\* the rows grow by exactly that number, the new rows are those of these
\* ids, and the rows stored before are unchanged.
C12_AddJobsCountsInserted ==
    (last.op = "add_jobs" /\ ~last.raised) =>
        LET jobs == last.rec
            new == IdsOf(jobs) \ StoredIds(last.before)
        IN  /\ last.count = Cardinality(new)
            /\ Cardinality(store.rows) = Cardinality(last.before) + last.count
            /\ last.before \subseteq store.rows
            /\ StoredIds(store.rows \ last.before) = new

\* C12's case: with j2 stored, add_jobs of a list of j1 and j1 again
\* returned 1.
C12_Witness ==
    /\ last.op = "add_jobs"
    /\ ~last.raised
    /\ Len(last.rec) = 2
    /\ last.rec[1].id = "j1" /\ last.rec[2].id = "j1"
    /\ StoredIds(last.before) = {"j2"}
    /\ last.count = 1
    /\ StoredIds(store.rows) = {"j1", "j2"}

(***************************************************************************)
(* Claims about scrape() and the filter step, checked under SpecScrape.    *)
(***************************************************************************)
\* The scraper was run.
Ran == result # NotRun

\* scrape() returned to its caller.
Returned == Ran /\ result.raised = "none"

Raw(i) == site.raw_jobs[i]
RawIndexes == 1..Len(site.raw_jobs)
ParsedJob(i) == Job(i, Raw(i).title, Raw(i).location, Raw(i).posted_date)

\* The record parsed from raw record i is in what scrape() returned.
Kept(i) == \E k \in 1..Len(result.jobs) : result.jobs[k].obj = i

\* fetch_jobs, parse_job or the filter step has an Exception to raise.
ErrorCause ==
    \/ site.fetch = "error"
    \/ \E i \in RawIndexes :
          \/ Raw(i).parse = "error"
          \/ Raw(i).parse = "job" /\ FilterRaisesOn(ParsedJob(i), scraper.job_titles)

\* The run is interrupted from the keyboard.
InterruptCause ==
    \/ site.fetch = "interrupt"
    \/ \E i \in RawIndexes : Raw(i).parse = "interrupt"

\* sub is a substring of s when the case of letters is ignored, position by
\* position.
ContainsIgnoringCase(s, sub) ==
    \E p \in 0..(Len(s) - Len(sub)) :
        \A q \in 1..Len(sub) :
            LowerChar(SubSeq(s, p + q, p + q)) = LowerChar(SubSeq(sub, q, q))

TitleMatches(i) ==
    \E k \in 1..Len(scraper.job_titles) :
        ContainsIgnoringCase(Raw(i).title, scraper.job_titles[k])

\* posted_date absent, or posted less than max_age_days + 1 whole days ago.
AgeAllowed(i) ==
    \/ Raw(i).posted_date = NoDate
    \/ clock - Raw(i).posted_date[1].at < (scraper.max_age_days + 1) * TicksPerDay

\* The predicate of the filter step, on raw record i.
ShouldKeep(i) == Raw(i).parse = "job" /\ TitleMatches(i) /\ AgeAllowed(i)

\* C4: scrape() never raises an Exception to its caller: when fetch_jobs
\* raises, or parse_job or the filter step raises for any record, scrape()
\* returns the empty sequence.  Only a keyboard interrupt, which is no
\* Exception, leaves scrape().
C4_ScrapeNeverRaises ==
    Ran =>
        /\ result.raised \in {"none", "interrupt"}
        /\ result.raised = "interrupt" => InterruptCause
        /\ ErrorCause => result.jobs = <<>>
        /\ ErrorCause /\ ~InterruptCause => result = [raised |-> "none", jobs |-> <<>>]

\* The filter step raised on one record while another one satisfied the
\* filter, and scrape() returned [].
C4_Witness ==
    /\ Returned
    /\ result.jobs = <<>>
    /\ site.fetch = "ok"
    /\ \A i \in RawIndexes : Raw(i).parse = "job"
    /\ \E i, j \in RawIndexes :
          /\ FilterRaisesOn(ParsedJob(i), scraper.job_titles)
          /\ Raw(j).title # None
          /\ ShouldKeep(j)

Tier3(j) == IF j.is_eu THEN 1 ELSE IF j.is_uae THEN 2 ELSE 3

Tier4(j) ==
    IF j.is_eu /\ j.is_uae THEN 1
    ELSE IF j.is_eu THEN 2
    ELSE IF j.is_uae THEN 3
    ELSE 4

\* out is in the order of the tiers, and in the order of the input inside
\* each tier.
StablePartition(out, Tier(_)) ==
    \A a, b \in 1..Len(out) :
        a < b => \/ Tier(out[a]) < Tier(out[b])
                 \/ Tier(out[a]) = Tier(out[b]) /\ out[a].obj < out[b].obj

Locations(raw_jobs) == [i \in 1..Len(raw_jobs) |-> raw_jobs[i].location]
Objs(jobs) == [k \in 1..Len(jobs) |-> jobs[k].obj]

C6_AgeBoundary ==
    Ran /\ ~ErrorCause /\ ~InterruptCause =>
        /\ result.raised = "none"
        /\ \A i \in RawIndexes :
              Raw(i).parse = "job" /\ TitleMatches(i) =>
                  LET d == Raw(i).posted_date
                      max_age == scraper.max_age_days * TicksPerDay
                  IN  /\ d = NoDate => Kept(i)
                      /\ d # NoDate /\ d[1].at = clock - max_age => Kept(i)
                      /\ d # NoDate /\ d[1].at = clock - max_age - TicksPerDay => ~Kept(i)
                      /\ d # NoDate /\ d[1].at > clock => Kept(i)

\* A record posted exactly max_age_days >= 1 days ago was kept.
C6_Witness ==
    /\ Returned
    /\ scraper.max_age_days >= 1
    /\ \E i \in RawIndexes :
          /\ Raw(i).posted_date # NoDate
          /\ Raw(i).posted_date[1].at = clock - scraper.max_age_days * TicksPerDay
          /\ Kept(i)

\* C7: the filter step returns exactly the parsed records of which some
\* configured title is a case-insensitive substring of the title and whose
\* posted_date is absent or at most max_age_days days old, each once and as
\* parsed; a record with an empty title is kept only when a configured title
\* is the empty string, and an empty list of configured titles keeps none.
C7_FilterExact ==
    Returned /\ ~ErrorCause =>
        /\ \A i \in RawIndexes :
              Cardinality({k \in 1..Len(result.jobs) : result.jobs[k].obj = i})
                  = IF ShouldKeep(i) THEN 1 ELSE 0
        /\ \A k \in 1..Len(result.jobs) :
              LET job == result.jobs[k]
              IN  /\ job.obj \in RawIndexes
                  /\ job.title = Raw(job.obj).title
                  /\ job.location = Raw(job.obj).location
                  /\ job.posted_date = Raw(job.obj).posted_date
                  /\ job.title = "" =>
                         \E c \in 1..Len(scraper.job_titles) : scraper.job_titles[c] = ""
        /\ scraper.job_titles = <<>> => result.jobs = <<>>

\* A title in capitals was kept for a configured title in mixed case, and
\* a record of another title was dropped.
C7_Witness ==
    /\ Returned
    /\ scraper.job_titles = <<"Data Engineer">>
    /\ \E i, j \in RawIndexes :
          /\ Raw(i).title = "DATA ENGINEER" /\ Kept(i)
          /\ Raw(j).title = "Data Scientist" /\ ~Kept(j)

\* C24: no record returned by the filter step has both is_eu and is_uae
\* true: for the location of every record kept, is_eu_location and
\* is_uae_location of the normalized location are not both true.
C24_RegionFlagsExclusive ==
    Returned =>
        \A k \in 1..Len(result.jobs) :
            LET normalized_location == normalize_location(result.jobs[k].location)
            IN  /\ ~(result.jobs[k].is_eu /\ result.jobs[k].is_uae)
                /\ ~(is_eu_location(normalized_location)
                      /\ is_uae_location(normalized_location))

\* C28: what scrape() gives is all or nothing: when fetch_jobs, parse_job
\* or the filter step raises for any record it is the empty list, also when
\* records had already passed the filter; otherwise it is every record that
\* satisfies the filter, each once, in the order of the sort.
C28_ScrapeAllOrNothing ==
    Ran =>
        IF ErrorCause \/ InterruptCause
        THEN result.jobs = <<>>
        ELSE /\ result.raised = "none"
             /\ \A i \in RawIndexes :
                   Cardinality({k \in 1..Len(result.jobs) : result.jobs[k].obj = i})
                       = IF ShouldKeep(i) THEN 1 ELSE 0
             /\ \A k \in 1..Len(result.jobs) : result.jobs[k].obj \in RawIndexes
             /\ StablePartition(result.jobs, Tier4)

\* C28's case: the first record passed the filter, the filter raised on the
\* second, and scrape() returned the empty list.
C28_Witness ==
    /\ Returned
    /\ result.jobs = <<>>
    /\ site.fetch = "ok"
    /\ Len(site.raw_jobs) = 2
    /\ Raw(1).parse = "job" /\ Raw(1).title # None /\ ShouldKeep(1)
    /\ ~FilterRaisesOn(ParsedJob(1), scraper.job_titles)
    /\ Raw(2).parse = "job"
    /\ FilterRaisesOn(ParsedJob(2), scraper.job_titles)

(***************************************************************************)
(* A claim about every step of the store, checked under SpecStore (and     *)
(* true of the steps of SpecMain as well).                                 *)
(***************************************************************************)
\* C27: notified is monotonic: a row that is notified is, after every
\* operation (add_job and add_jobs of a record of its id included), still
\* stored and notified, and get_unnotified_jobs does not return it.
C27_NotifiedMonotonic ==
    [][\A r \in store.rows :
          r.notified =>
              /\ \E q \in store'.rows : q.id = r.id
              /\ \A q \in store'.rows : q.id = r.id => q.notified
              /\ \A q \in GetUnnotifiedJobs(store'.rows) : q.id # r.id]_vars

\* C27's case: add_job of a record of the id of a notified row, with other
\* field values than the row's, returned False and the row is still
\* notified.
C27_Witness ==
    /\ last.op = "add_job"
    /\ ~last.raised
    /\ ~last.ret
    /\ \E r \in last.before :
          /\ r.notified
          /\ r.id = last.rec[1].id
          /\ r.is_eu # last.rec[1].is_eu
          /\ r \in store.rows

(***************************************************************************)
(* Claims about the orchestrator, checked under SpecMain.                  *)
(***************************************************************************)
NotifiedIds(rows) == {r.id : r \in {x \in rows : x.notified}}
UnnotifiedIds(rows) == {r.id : r \in {x \in rows : ~x.notified}}

\* C13: a row is notified only if a send that succeeded contained it; the
\* rows that become notified in a run are among the ids handed to the
\* notifier in that run, after the send was made; and a run whose send
\* failed or that was started with --no-email leaves notified as it was.
C13_NotifiedOnlyAfterSuccessfulSend ==
    /\ NotifiedIds(store.rows) \subseteq log.ever_sent
    /\ \A id \in NotifiedIds(store.rows) \ NotifiedIds(log.start_rows) :
          log.sent /\ id \in log.handed
    /\ (run.no_email \/ ~log.sent) =>
          NotifiedIds(store.rows) = NotifiedIds(log.start_rows)

\* C13's case: in a second run, after a run whose send failed, the send
\* succeeded and the rows it contained are notified.
C13_Witness ==
    /\ log.runs = 2
    /\ run.pc = "exited"
    /\ log.sent
    /\ UnnotifiedIds(log.start_rows) # {}
    /\ NotifiedIds(store.rows) = log.handed
    /\ log.handed # {}

\* C14: every mark_resume_generated(id, path) of a run is made for a job
\* whose resume was generated in that run, with the path of the resume of
\* that job.
C14_ResumeMarkedForItsJob ==
    \A call \in log.resume_calls :
        /\ call.id \in log.generated
        /\ call.path = ResumeFile([id |-> call.id])

\* C15: a run with email enabled that ends with status 0 has handed every
\* row that was unnotified at its start to the notifier, also when its
\* scrapers returned no jobs.
C15_UnnotifiedHandedEveryRun ==
    (run.pc = "exited" /\ run.exit = <<0>> /\ ~run.no_email) =>
        UnnotifiedIds(log.start_rows) \subseteq log.handed

\* What a source done added to all_jobs: nothing when it failed.
Contribution(k) ==
    IF log.scraped[k].failed THEN <<>> ELSE log.scraped[k].returned

\* The sum of the lengths of the contributions of the first k sources.
RECURSIVE Contributed(_)
Contributed(k) == IF k = 0 THEN 0 ELSE Contributed(k - 1) + Len(Contribution(k))

\* C16: while run_scrapers runs, the sources are gone through one by one
\* whatever failed: a source in which get_scraper, the start of the driver
\* or the conversion raised added nothing, every other source added what
\* scrape() returned, and only a keyboard interrupt ends run_scrapers before
\* the last source.
C16_ContinuesPastFailedSource ==
    /\ run.pc = "scrapers" =>
          /\ run.i = Len(log.scraped)
          /\ \A k \in 1..run.i : log.scraped[k].name = run.names[k]
          /\ Len(run.all_jobs) = Contributed(run.i)
          /\ \A k \in 1..run.i : \A n \in 1..Len(Contribution(k)) :
                \E a \in 1..Len(run.all_jobs) : run.all_jobs[a] = Contribution(k)[n]
    /\ (run.pc = "exited" /\ log.scraped # <<>>) =>
          /\ run.exit = <<130>>
          /\ log.interrupt \in {"card", "page"}

\* C16's case: the first source failed, the second was run and its jobs
\* are the ones collected.
C16_Witness ==
    /\ run.pc = "scrapers"
    /\ run.i = 2
    /\ log.scraped[1].failed
    /\ ~log.scraped[2].failed
    /\ log.scraped[2].returned # <<>>
    /\ run.all_jobs = log.scraped[2].returned

\* The contributions of the first k sources, one after the other.
RECURSIVE Merged(_)
Merged(k) == IF k = 0 THEN <<>> ELSE Merged(k - 1) \o Contribution(k)

\* C17: the list of run_scrapers is the lists scrape() returned, of the
\* sources that did not fail, one after the other in the order of the
\* configured sources, each in the order scrape() gave it.
C17_MergedInSourceOrder ==
    run.pc = "scrapers" => run.all_jobs = Merged(run.i)

\* C17's case: linkedin before google, both with jobs; the jobs of
\* linkedin come first and those of google keep the order of its scrape().
C17_Witness ==
    /\ run.pc = "scrapers"
    /\ run.names = <<"linkedin", "google">>
    /\ run.i = 2
    /\ Len(log.scraped[1].returned) = 1
    /\ Len(log.scraped[2].returned) = 2
    /\ run.all_jobs = log.scraped[1].returned \o log.scraped[2].returned
    /\ log.scraped[2].returned[1].id = "j2"
    /\ log.scraped[2].returned[2].id = "j1"

\* C18: when the store raises in the persistence step the run is over:
\* main has returned 1, which is neither 0 nor 130, the notifier was not
\* called, and no row was marked notified in the run.
C18_StoreFailureIsFatal ==
    log.store_raised =>
        /\ run.pc = "exited"
        /\ run.exit = <<1>>
        /\ run.exit \notin {<<0>>, <<130>>}
        /\ ~log.notifier_called
        /\ log.handed = {}
        /\ NotifiedIds(store.rows) = NotifiedIds(log.start_rows)

\* C18's case: with an unnotified row left from an earlier run and email
\* enabled, add_jobs raised.
C18_Witness ==
    /\ log.store_raised
    /\ ~run.no_email
    /\ UnnotifiedIds(log.start_rows) # {}
    /\ run.exit = <<1>>

\* C19: once a keyboard interrupt has arrived in a run, main has returned
\* 130.
C19_InterruptEndsRun ==
    log.interrupt # "none" => run.pc = "exited" /\ run.exit = <<130>>

\* C20: while run_scrapers runs no driver is left running between two
\* sources, no source was started while a driver was running, and the store
\* is as it was when the run began.
C20_OneSourceAtATime ==
    /\ log.drivers = {}
    /\ \A k \in 1..Len(log.scraped) : ~log.scraped[k].open
    /\ run.pc = "scrapers" => store.rows = log.start_rows

Phrases ==
    {[text |-> Str(n) \o " " \o unit \o plural \o " ago",
      expected |-> Before(HoursOf(n, unit))] :
        n \in {1, 2, 12}, unit \in {"hour", "day", "week", "month"},
        plural \in {"", "s"}}
    \cup {[text |-> text, expected |-> Before(0)] :
            text \in {"today", "Today", "just now", "Just now"}}
    \cup {[text |-> text, expected |-> Before(24)] : text \in {"yesterday", "Yesterday"}}
    \cup {[text |-> text, expected |-> NoDate] :
            text \in {"", "soon", "30+ days ago", "Just posted", "Be an early applicant"}}

\* The cards of the model's sites: one that shows no date; one with a
\* relative date; dates in ISO format without and with a timezone; one in
\* Apple's format; one parse_job raises on; one whose reading raises; one
\* without company, location and date; one without title; one of another
\* title; and two of one link whose titles and companies join to one text.
Sample ==
    [plain |->
        Card("Data Engineer", "IBM", "Dubai, UAE", "/jobs/1", None, None, FALSE, "ok"),
     dated |->
        Card("Senior Data Engineer", "IBM", "Berlin, Germany", "/jobs/2", "2 weeks ago", "Posted 2 weeks ago", FALSE, "ok"),
     iso |->
        Card("Data Engineer", "SAP", "Dubai, UAE", "/jobs/3", "2026-11-01", "yesterday", FALSE, "ok"),
     aware |->
        Card("Data Engineer", "SAP", "Dubai, UAE", "/jobs/3b", "2026-11-01T00:00:00Z", "", FALSE, "ok"),
     apple |->
        Card("Data Engineer", "SAP", "Abu Dhabi", "https://jobs.example.com/4", "Nov 01, 2026", None, FALSE, "ok"),
     unparsed |->
        Card("Data Engineer", "IBM", "Dubai, UAE", "/jobs/5", None, None, FALSE, "error"),
     broken |->
        Card("Data Engineer", "IBM", "Dubai, UAE", "/jobs/6", None, None, TRUE, "ok"),
     bare |->
        Card("Data Engineer", None, None, "/jobs/7", None, None, FALSE, "ok"),
     untitled |->
        Card(None, "IBM", "Dubai, UAE", "/jobs/8", None, None, FALSE, "ok"),
     other |->
        Card("Data Scientist", "IBM", "Dubai, UAE", "/jobs/9", None, None, FALSE, "ok"),
     first |->
        Card("Data Engineer 1", "2Degrees", "Dubai, UAE", "/jobs/10", None, None, FALSE, "ok"),
     twelfth |->
        Card("Data Engineer 12", "Degrees", "Dubai, UAE", "/jobs/10", None, None, FALSE, "ok")]

Cards == {Sample[f] : f \in DOMAIN Sample}

\* The most cards on the page of a single search, and the most searches
\* that show a page of their own.
MaxCards == 2
MaxPages == 2

\* The sequences of at most n elements of S.
RECURSIVE SeqsUpTo(_, _)
SeqsUpTo(S, n) ==
    IF n = 0 THEN {<<>>}
    ELSE LET shorter == SeqsUpTo(S, n - 1)
         IN  shorter \cup {Append(s, x) : s \in {t \in shorter : Len(t) = n - 1}, x \in S}

\* What the searches of a site show: one page of one card, of a few cards
\* that parse_job and the filter treat differently, or of two postings
\* whose titles and companies join to one text; or one page for each of
\* several searches, each failing to load or showing cards.
SearchPages ==
    {Page("error", <<>>), Page("ok", <<Sample.plain>>),
     Page("ok", <<Sample.broken, Sample.dated>>), Page("ok", <<Sample.unparsed, Sample.bare>>)}

PageLists ==
    {<<Page("ok", cards)>> :
        cards \in SeqsUpTo({Sample.plain, Sample.dated, Sample.unparsed}, MaxCards)
                  \cup {<<card>> : card \in Cards}
                  \cup {<<Sample.first, Sample.twelfth>>}}
    \cup (SeqsUpTo(SearchPages, MaxPages) \ {<<>>})

\* The criteria of the adapters' scrapers: postings of at most 5 days, or of
\* at most 30.
AdapterScrapers ==
    {[job_titles |-> <<"Data Engineer">>, max_age_days |-> days] : days \in {5, 30}}

\* The time of the first scrape.
AdapterNow == 40 * TicksPerDay

\* The card of a posting when it is scraped again later: the date it shows
\* has changed, and so has what the id is not made of.
Rescraped(name, card) ==
    [card EXCEPT !.posted = IF @ = None THEN None ELSE "3 weeks ago",
                 !.detail = IF @ = None THEN None ELSE "Posted 3 weeks ago",
                 !.location = IF name \in CompanyKeyed THEN "Abu Dhabi, UAE" ELSE @,
                 !.company = IF name \in CompanyKeyed THEN @ ELSE "Other"]

InitAdapter ==
    /\ store = EmptyStore
    /\ clock = AdapterNow
    /\ last = NoCall
    /\ twice = <<>>
    /\ marked = {}
    /\ site = Site("ok", <<>>)
    /\ result = NotRun
    /\ \/ /\ scraper = TierScraper
          /\ adapter \in {[NoAdapter EXCEPT !.pc = "dates", !.phrase = p] : p \in Phrases}
       \/ /\ scraper \in AdapterScrapers
          /\ adapter \in {[NoAdapter EXCEPT !.pc = "new", !.name = name,
                                            !.pages = pages, !.runs = 1] :
                             name \in AdapterNames, pages \in PageLists}
    /\ run = NotStarted
    /\ log = NoLog

\* The text is parsed by GoogleScraper._parse_date and by
\* LinkedInScraper._parse_relative_date.
ParseDates ==
    /\ adapter.pc = "dates"
    /\ adapter' = [adapter EXCEPT
                      !.pc = "parsed",
                      !.dates = <<[google |-> GoogleParseDate(adapter.phrase.text),
                                   linkedin |->
                                       LinkedInParseRelativeDate(adapter.phrase.text)]>>]
    /\ UNCHANGED <<storeVars, scraper, site, result, mainVars>>

\* scrape() of the adapter: its fetch_jobs, its parse_job on every raw job,
\* the filter.
AdapterScrape ==
    /\ adapter.pc = "new"
    /\ LET fetched == FetchJobs(adapter.name, adapter.pages)
           web == Site(IF fetched.raised = "none" THEN "ok" ELSE fetched.raised,
                       ParsedBy(adapter.name, fetched.jobs, clock))
       IN  /\ adapter' = [adapter EXCEPT !.pc = "scraped", !.fetched = fetched]
           /\ site' = web
           /\ result' = scrape(scraper, web, clock)
    /\ UNCHANGED <<storeVars, scraper, mainVars>>

\* store.add_jobs of what scrape() returned, as dictionaries.
AdapterStore ==
    /\ adapter.pc = "scraped"
    /\ LET job_dicts == ToDicts(result.jobs, site.raw_jobs)
           out == AddJobs(store, job_dicts, clock, 0)
       IN  /\ store' = out.st
           /\ adapter' = [adapter EXCEPT
                             !.pc = "stored",
                             !.handed = [k \in 1..Len(job_dicts) |-> job_dicts[k].id],
                             !.before = store.rows,
                             !.added = out.ret]
    /\ UNCHANGED <<clock, last, twice, marked, scraper, site, result, mainVars>>

\* A day later the same postings are scraped again, once.
AdapterNextRun ==
    /\ adapter.pc = "stored"
    /\ adapter.runs = 1
    /\ clock' = clock + TicksPerDay
    /\ adapter' = [adapter EXCEPT
                      !.pc = "new",
                      !.runs = @ + 1,
                      !.pages = [k \in 1..Len(@) |->
                                    Page(@[k].load,
                                         [i \in 1..Len(@[k].cards) |->
                                             Rescraped(adapter.name, @[k].cards[i])])],
                      !.seen = @ \cup {adapter.fetched.jobs[i] :
                                          i \in 1..Len(adapter.fetched.jobs)}]
    /\ result' = NotRun
    /\ UNCHANGED <<store, last, twice, marked, scraper, site, mainVars>>

NextAdapter ==
    \/ ParseDates
    \/ AdapterScrape
    \/ AdapterStore
    \/ AdapterNextRun

SpecAdapter == InitAdapter /\ [][NextAdapter]_vars

(***************************************************************************)
(* Claims about the adapters, checked under SpecAdapter.                   *)
(***************************************************************************)
\* The two date parsers were applied to the text.
DatesParsed == adapter.pc = "parsed"

\* C26: GoogleScraper._parse_date and LinkedInScraper._parse_relative_date
\* agree with one relative-date parser: on "N hour(s)/day(s)/week(s)/
\* month(s) ago", "today", "just now" and "yesterday" both return now minus
\* the timedelta the text stands for, and on any other text both return
\* None.
C26_DateParsersAgree ==
    DatesParsed =>
        /\ adapter.dates[1].google = adapter.phrase.expected
        /\ adapter.dates[1].linkedin = adapter.phrase.expected

\* scrape() of the adapter returned.
AdapterScraped == adapter.pc = "scraped"

\* The raw jobs fetch_jobs returned, and the card raw job i was read from.
FetchedIndexes == 1..Len(adapter.fetched.jobs)
CardOf(i) == adapter.fetched.jobs[i].card

\* The listing of raw job i exposes no posting date: none on the card and
\* none on the detail page.
NoDateExposed(i) == CardOf(i).posted = None /\ CardOf(i).detail = None

\* C23: for every adapter, a record built from a listing that exposes no
\* posting date has no posted_date, and scrape() returns it when its title
\* matches, whatever max_age_days is (5 included).
C23_UndatedRecordKept ==
    AdapterScraped =>
        \A i \in FetchedIndexes :
            NoDateExposed(i) /\ Raw(i).parse = "job" =>
                /\ Raw(i).posted_date = NoDate
                /\ TitleMatches(i) /\ Returned => Kept(i)

\* The three fields the id of a raw job is made of.
Triple(raw_job) ==
    <<raw_job.title,
      IF adapter.name \in CompanyKeyed THEN raw_job.company ELSE raw_job.location,
      IF adapter.name = "meta" THEN raw_job.card.url ELSE raw_job.url>>

\* The raw jobs of this scrape and of the scrapes before.
AllRawJobs ==
    adapter.seen \cup {adapter.fetched.jobs[i] : i \in FetchedIndexes}

\* C30: within one adapter, two raw records get the same id only if their
\* (title, location-or-company, url) triples are equal field by field, so
\* two postings that differ in one of the three fields are two rows of the
\* store.
C30_SameIdOnlyForSameTriple ==
    /\ \A a, b \in AllRawJobs : a.id = b.id => Triple(a) = Triple(b)
    /\ adapter.pc = "stored" =>
          \A i, j \in 1..Len(result.jobs) :
              LET a == adapter.fetched.jobs[result.jobs[i].obj]
                  b == adapter.fetched.jobs[result.jobs[j].obj]
              IN  Triple(a) # Triple(b) =>
                     \E r, q \in store.rows : r.id = a.id /\ q.id = b.id /\ r # q

\* add_jobs of what the adapter's scrape() returned has returned.
AdapterStored == adapter.pc = "stored"

\* The ids handed to add_jobs.
HandedIds == {adapter.handed[k] : k \in 1..Len(adapter.handed)}

\* C25: the id of a record is a function of (title, location, url) in the
\* Google, Meta, Apple and Netflix adapters and of (title, company, url) in
\* the LinkedIn, Bayt and GulfTalent adapters: a posting scraped again
\* later, with another scrape time and its other fields changed, gets the
\* same id, and add_jobs does not count it and leaves its row as it was,
\* the only row of its id.
C25_IdDeterministic ==
    /\ \A a, b \in AllRawJobs : Triple(a) = Triple(b) => a.id = b.id
    /\ AdapterStored =>
          /\ \A id \in HandedIds \cap StoredIds(adapter.before) :
                RowsOf(store.rows, id) = RowsOf(adapter.before, id)
          /\ \A id \in HandedIds : Cardinality(RowsOf(store.rows, id)) = 1
          /\ adapter.added = Cardinality(HandedIds \ StoredIds(adapter.before))

\* A posting stored by the first scrape was scraped again a day later with
\* another location or company and another date text, was handed to
\* add_jobs again, and add_jobs added nothing.
C25_Witness ==
    /\ AdapterStored
    /\ adapter.runs = 2
    /\ adapter.handed # <<>>
    /\ adapter.added = 0
    /\ \E a \in adapter.seen :
          \E i \in FetchedIndexes :
              LET b == adapter.fetched.jobs[i]
              IN  /\ Triple(a) = Triple(b)
                  /\ a.card.posted # b.card.posted
                  /\ <<a.card.company, a.card.location>>
                        # <<b.card.company, b.card.location>>
                  /\ b.id \in HandedIds \cap StoredIds(adapter.before)

\* The searches of the adapter, the page of search k and its cards.
Searches == 1..Len(SearchLocations(adapter.name))
SearchPage(k) == PageOf(adapter.pages, k)
CardIndexes(k) == 1..Len(SearchPage(k).cards)

\* Card i of the page of search k is on a page that loaded and can be
\* read: _extract_job_from_card makes a raw job of it.
Readable(k, i) ==
    /\ SearchPage(k).load = "ok"
    /\ extract_job_from_card(adapter.name, SearchPage(k).cards[i],
                             SearchLocations(adapter.name)[k]) # <<>>

\* C22: fetch_jobs of every adapter fails soft: it does not raise; a card
\* that cannot be read is skipped and the other cards of its page are
\* collected; a page that fails to load costs its own cards only, what was
\* collected before it is kept and the searches after it are still made.
C22_FetchFailsSoft ==
    adapter.pc \in {"scraped", "stored"} =>
        /\ adapter.fetched.raised = "none"
        /\ site.fetch = "ok"
        /\ \A k \in Searches :
              \A i \in CardIndexes(k) :
                  Readable(k, i) =>
                      \E j \in FetchedIndexes : CardOf(j) = SearchPage(k).cards[i]
        /\ \A j \in FetchedIndexes :
              \E k \in Searches :
                  \E i \in CardIndexes(k) :
                      Readable(k, i) /\ CardOf(j) = SearchPage(k).cards[i]
        /\ Len(adapter.fetched.jobs) =
              Cardinality({ki \in UNION {{<<k, i>> : i \in CardIndexes(k)} : k \in Searches} :
                              Readable(ki[1], ki[2])})

\* The page of the first search failed to load; the page of the second
\* loaded, its first card could not be read, its second card was collected.
C22_Witness ==
    /\ AdapterScraped
    /\ Len(SearchLocations(adapter.name)) > 1
    /\ SearchPage(1).load = "error"
    /\ SearchPage(2).load = "ok"
    /\ Len(SearchPage(2).cards) = 2
    /\ SearchPage(2).cards[1].broken
    /\ Readable(2, 2)
    /\ Len(adapter.fetched.jobs) = 1
    /\ CardOf(1) = SearchPage(2).cards[2]

\* parse_job fails for raw job i.
ParseFails(i) == CardOf(i).parse = "error"

\* No parsed record makes the filter step raise.
FilterRuns ==
    \A i \in RawIndexes :
        Raw(i).parse = "job" => ~FilterRaisesOn(ParsedJob(i), scraper.job_titles)

\* C21: a parse error on one raw record does not abort the batch: parse_job
\* returns None for it, scrape() drops that record, and every other raw
\* record is parsed, filtered and, when it passes the filter, returned.
C21_ParseErrorDropsOneItem ==
    AdapterScraped =>
        /\ \A i \in FetchedIndexes : ParseFails(i) => Raw(i).parse = "none" /\ ~Kept(i)
        /\ \A i \in FetchedIndexes : ~ParseFails(i) => Raw(i).parse = "job"
        /\ FilterRuns =>
              /\ Returned
              /\ \A i \in FetchedIndexes : Kept(i) <=> ShouldKeep(i)

\* parse_job failed for the first raw job of a page, and the raw job after
\* it was parsed and returned.
C21_Witness ==
    /\ AdapterScraped
    /\ Len(adapter.fetched.jobs) = 2
    /\ ParseFails(1)
    /\ ~ParseFails(2)
    /\ Len(result.jobs) = 1
    /\ Kept(2)

====
